---- MODULE Spec2Model ----
(***************************************************************************)
(* Model of the add-to-zotero MCP server: its Zotero helper (unwrapUrl,     *)
(* createItem, the attachment and listing functions, updateItem) and the   *)
(* tool handlers of the server.                                            *)
(*                                                                         *)
(* A JavaScript string is a sequence of one-character strings, so that     *)
(* parsing, percent-decoding and pattern matching are computed character   *)
(* by character as the code computes them.                                 *)
(***************************************************************************)
EXTENDS Naturals, Sequences, FiniteSets, TLC

VARIABLES
    raw,            \* unwrapUrl: the argument of the call
    unwrapResult,   \* unwrapUrl: the outcome of the call (pending, return, throw)
    pc,             \* createItem: where the call stands
    args,           \* createItem: the metadata the caller supplied
    fetched,        \* createItem: the template as getItemTemplate returned it
    template,       \* createItem: the template object, filled in place
    posted,         \* createItem: the items posted to the library, in order
    result,         \* createItem: the object returned to the caller
    authorName,     \* createItem's authors.map callback: the name it is given
    creator,        \* createItem's authors.map callback: the creator it returns
    simple,         \* resolveItemType: the argument of the call
    zoteroType,     \* resolveItemType: the value the call returns
    zoteroTypeAgain, \* resolveItemType: the value it returns for that value
    item,           \* formatItemSummary: the raw item it is given
    summary,        \* formatItemSummary: the summary it returns
    listOp,         \* listing functions: the function called
    rows,           \* listing functions: response.raw as the library answered
    listing,        \* listing functions: the object returned to the caller
    pdfUrl,         \* createItem: the pdfUrl parameter
    snapshotUrl,    \* createItem: the snapshotUrl parameter
    attachCaller,   \* attach functions: who called ("tool" or "createItem")
    attachKind,     \* attach functions: "pdf" (attachPdfFromUrl) or "snapshot" (attachSnapshot)
    attachUrl,      \* attach functions: the URL argument
    fetchUrl,       \* attach functions: the URL after unwrapUrl
    attachPc,       \* attach functions: where the call stands
    downloads,      \* attach functions: the download requests issued by the call
    download,       \* attach functions: how the download request ended
    attachResult,   \* attach functions: the outcome of the call
    attachments,    \* attach functions: the keys of the attachment items created
    attempted,      \* attach functions: the attach functions called, in order
    tool,           \* tool handlers: the tool called
    env,            \* tool handlers: process.env as the handler finds it
    upstream,       \* tool handlers: how the library answered the helper
    toolResult,     \* tool handlers: the outcome of the handler
    changes,        \* updateItem: the changes asked for
    current,        \* updateItem: raw.data as the library returned it
    patched,        \* updateItem: the data objects sent with patch, in order
    updatePc,       \* updateItem: where the call stands
    updateResult,   \* updateItem: the object returned to the caller
    fulltextPc,     \* getItemFulltext: where the call stands
    childRows,      \* getItemFulltext: the children as the library listed them
    requests,       \* getItemFulltext: the requests made and how each ended, in order
    fulltextResult, \* getItemFulltext: the object returned to the caller
    platform,       \* setup app: process.platform
    settingsFile,   \* setup app: the settings.json of the app
    configFile,     \* setup app: the Claude Desktop config file
    saves,          \* setup app: the save-config requests handled
    saveResult,     \* setup app: what the last save-config returned
    connArgs,       \* testZoteroConnection: the API key and library id it is given
    request,        \* testZoteroConnection: the state of the https request
    events,         \* testZoteroConnection: the events delivered to its callbacks, in order
    settled,        \* testZoteroConnection: how the promise it returned has settled
    libraryIdValue, \* setup form: the text of the library id field
    apiKeyValue,    \* setup form: the text of the API key field
    btnTestDisabled,\* setup form: btnTest.disabled
    btnSaveDisabled,\* setup form: btnSave.disabled
    testsInFlight,  \* setup form: the test-connection requests not yet answered
    savesInFlight,  \* setup form: the save-config requests not yet answered
    formShown,      \* setup form: the form view is displayed, not the success view
    statusPending   \* setup form: init still awaits get-status

unwrapVars == <<raw, unwrapResult>>

createVars == <<pc, args, fetched, template, posted, result>>

creatorVars == <<authorName, creator>>

resolveVars == <<simple, zoteroType, zoteroTypeAgain>>

summaryVars == <<item, summary>>

listVars == <<listOp, rows, listing>>

attachVars == <<pdfUrl, snapshotUrl, attachCaller, attachKind, attachUrl, fetchUrl,
                attachPc, downloads, download, attachResult, attachments, attempted>>

toolVars == <<tool, env, upstream, toolResult>>

updateVars == <<changes, current, patched, updatePc, updateResult>>

fulltextVars == <<fulltextPc, childRows, requests, fulltextResult>>

configVars == <<platform, settingsFile, configFile, saves, saveResult>>

connVars == <<connArgs, request, events, settled>>

formVars == <<libraryIdValue, apiKeyValue, btnTestDisabled, btnSaveDisabled, testsInFlight, savesInFlight, formShown, statusPending>>

vars == <<raw, unwrapResult, pc, args, fetched, template, posted, result,
          authorName, creator, simple, zoteroType, zoteroTypeAgain, item, summary,
          listOp, rows, listing, pdfUrl, snapshotUrl, attachCaller, attachKind,
          attachUrl, fetchUrl, attachPc, downloads, download, attachResult, attachments, attempted,
          tool, env, upstream, toolResult,
          changes, current, patched, updatePc, updateResult,
          fulltextPc, childRows, requests, fulltextResult,
          platform, settingsFile, configFile, saves, saveResult,
          connArgs, request, events, settled,
          libraryIdValue, apiKeyValue, btnTestDisabled, btnSaveDisabled, testsInFlight, savesInFlight, formShown, statusPending>>

-----------------------------------------------------------------------------
(* Bounds of the model *)

\* the most path segments of a generated URL
MaxSegs == 2

\* the most query parameters of a generated URL
MaxParams == 2

\* the most optional inputs a caller of createItem supplies
MaxSupplied == 1

\* the most fields a template declares besides itemType and the publication
\* title fields
MaxKeys == 1

\* the most tokens of a generated author name
MaxTokens == 3

\* the most creators of a raw item
MaxCreators == 2

\* the most rows of a listing response
MaxRows == 2

\* the most entries of a tag list of update_item, and of the tags of the
\* item it updates
MaxTagList == 2

\* the most children of the item whose full text is asked
MaxChildren == 3

\* the most segments, empty ones included, of the path of a plain site
MaxPlainSegs == 3

\* the most save-config requests of a run of the setup app
MaxSaves == 2

\* the most chunks of the body of a response to the connection test
MaxChunks == 2

-----------------------------------------------------------------------------
(* String primitives *)

\* String.prototype.startsWith
StartsWith(s, p) ==
    /\ Len(s) >= Len(p)
    /\ SubSeq(s, 1, Len(p)) = p

\* p occurs in s starting at index i
OccursAt(s, p, i) ==
    /\ i >= 1
    /\ i + Len(p) - 1 <= Len(s)
    /\ SubSeq(s, i, i + Len(p) - 1) = p

\* an unanchored match of the literal p
Contains(s, p) ==
    \E i \in 1..(Len(s) + 1) : OccursAt(s, p, i)

\* an unanchored match of the regex a.*b
ContainsThen(s, a, b) ==
    \E i \in 1..(Len(s) + 1) :
        /\ OccursAt(s, a, i)
        /\ \E j \in (i + Len(a))..(Len(s) + 1) : OccursAt(s, b, j)

\* index of the first occurrence of a character of cs in s at or after from; 0 if none
FirstOf(s, cs, from) ==
    LET I == {i \in from..Len(s) : s[i] \in cs}
    IN  IF I = {} THEN 0 ELSE CHOOSE i \in I : \A j \in I : i <= j

\* the rest of s from index i on
From(s, i) ==
    SubSeq(s, i, Len(s))

RECURSIVE Split(_, _)
\* String.prototype.split on the one-character separator c
Split(s, c) ==
    LET i == FirstOf(s, {c}, 1)
    IN  IF i = 0 THEN <<s>>
        ELSE <<SubSeq(s, 1, i - 1)>> \o Split(From(s, i + 1), c)

UpperCaseLetters ==
    <<"A","B","C","D","E","F","G","H","I","J","K","L","M",
      "N","O","P","Q","R","S","T","U","V","W","X","Y","Z">>

LowerCaseLetters ==
    <<"a","b","c","d","e","f","g","h","i","j","k","l","m",
      "n","o","p","q","r","s","t","u","v","w","x","y","z">>

Digits ==
    {"0","1","2","3","4","5","6","7","8","9"}

Range(f) ==
    {f[i] : i \in DOMAIN f}

Lower(c) ==
    IF c \in Range(UpperCaseLetters)
    THEN LowerCaseLetters[CHOOSE i \in DOMAIN UpperCaseLetters : UpperCaseLetters[i] = c]
    ELSE c

\* the case folding of the regex flag i, on ASCII
ToLowerCase(s) ==
    [i \in 1..Len(s) |-> Lower(s[i])]

Upper(c) ==
    IF c \in Range(LowerCaseLetters)
    THEN UpperCaseLetters[CHOOSE i \in DOMAIN LowerCaseLetters : LowerCaseLetters[i] = c]
    ELSE c

ToUpperCase(s) ==
    [i \in 1..Len(s) |-> Upper(s[i])]

HexDigits ==
    Digits \cup {"a","b","c","d","e","f","A","B","C","D","E","F"}

\* %XY is a percent escape at index i of s
IsEscapeAt(s, i) ==
    /\ s[i] = "%"
    /\ i + 2 <= Len(s)
    /\ s[i + 1] \in HexDigits
    /\ s[i + 2] \in HexDigits

\* the character of the byte written %XY (the ASCII bytes the inputs use;
\* any other byte stands for itself as one opaque character)
ByteChar(x, y) ==
    LET h == <<Lower(x), Lower(y)>>
    IN  CASE h = <<"2","0">> -> " "
          [] h = <<"2","5">> -> "%"
          [] h = <<"2","6">> -> "&"
          [] h = <<"2","f">> -> "/"
          [] h = <<"3","a">> -> ":"
          [] h = <<"3","d">> -> "="
          [] h = <<"3","f">> -> "?"
          [] OTHER -> "byte"

RECURSIVE PercentDecode(_)
\* the lenient percent-decoding of URLSearchParams: an escape becomes its
\* byte, a % that starts no escape stays, + becomes a space
PercentDecode(s) ==
    IF s = <<>> THEN <<>>
    ELSE IF IsEscapeAt(s, 1) THEN <<ByteChar(s[2], s[3])>> \o PercentDecode(From(s, 4))
    ELSE IF s[1] = "+" THEN <<" ">> \o PercentDecode(From(s, 2))
    ELSE <<s[1]>> \o PercentDecode(From(s, 2))

RECURSIVE StrictDecode(_)
\* the decoding of decodeURIComponent on a string all of whose % start an escape
StrictDecode(s) ==
    IF s = <<>> THEN <<>>
    ELSE IF s[1] = "%" THEN <<ByteChar(s[2], s[3])>> \o StrictDecode(From(s, 4))
    ELSE <<s[1]>> \o StrictDecode(From(s, 2))

\* decodeURIComponent: throws URIError when a % starts no escape
DecodeURIComponent(s) ==
    IF \E i \in 1..Len(s) : s[i] = "%" /\ ~IsEscapeAt(s, i)
    THEN [ok |-> FALSE, value |-> <<>>]
    ELSE [ok |-> TRUE, value |-> StrictDecode(s)]

-----------------------------------------------------------------------------
(* new URL(raw): the WHATWG parser on http and https URLs without port,   *)
(* credentials, fragment, backslash or dot segments                        *)

Letters ==
    Range(UpperCaseLetters) \cup Range(LowerCaseLetters)

\* the characters before the first colon form a scheme
IsScheme(s) ==
    /\ s # <<>>
    /\ s[1] \in Letters
    /\ \A i \in 1..Len(s) : s[i] \in Letters \cup Digits \cup {"+", "-", "."}

\* one name=value piece of a query as a decoded <<name, value>> pair
ParsePair(piece) ==
    LET eq == FirstOf(piece, {"="}, 1)
    IN  IF eq = 0 THEN <<PercentDecode(piece), <<>>>>
        ELSE <<PercentDecode(SubSeq(piece, 1, eq - 1)),
               PercentDecode(From(piece, eq + 1))>>

\* url.searchParams: the pairs of the query, in order, empty pieces skipped
SearchParams(query) ==
    LET pieces == SelectSeq(Split(query, "&"), LAMBDA p : p # <<>>)
    IN  [i \in 1..Len(pieces) |-> ParsePair(pieces[i])]

\* the null of URLSearchParams.get: no sequence of characters
NULL ==
    <<"null">>

\* URLSearchParams.get: the value of the first pair named name, or null
SearchParamsGet(params, name) ==
    LET I == {i \in 1..Len(params) : params[i][1] = name}
    IN  IF I = {} THEN NULL
        ELSE params[CHOOSE i \in I : \A j \in I : i <= j][2]

\* the failure of the parser: new URL throws TypeError
ParseFailure ==
    [ok |-> FALSE, pathname |-> <<>>, searchParams |-> <<>>]

\* scheme state, then "special authority ignore slashes", host, path and
\* query states; an empty host is a failure; an empty path is "/"
ParseURL(s) ==
    LET colon == FirstOf(s, {":"}, 1)
    IN  IF colon = 0 \/ ~IsScheme(SubSeq(s, 1, colon - 1)) THEN ParseFailure
        ELSE
          LET afterSlashes ==
                  LET I == {i \in (colon + 1)..Len(s) : s[i] # "/"}
                  IN  IF I = {} THEN Len(s) + 1
                      ELSE CHOOSE i \in I : \A j \in I : i <= j
              hostEnd ==
                  LET e == FirstOf(s, {"/", "?"}, afterSlashes)
                  IN  IF e = 0 THEN Len(s) + 1 ELSE e
              queryStart ==
                  LET q == FirstOf(s, {"?"}, hostEnd)
                  IN  IF q = 0 THEN Len(s) + 1 ELSE q
              path == SubSeq(s, hostEnd, queryStart - 1)
          IN  IF hostEnd = afterSlashes THEN ParseFailure
              ELSE [ok |-> TRUE,
                    pathname |-> IF path = <<>> THEN <<"/">> ELSE path,
                    searchParams |-> SearchParams(From(s, queryStart + 1))]

-----------------------------------------------------------------------------
(* unwrapUrl *)

HTTP_PREFIX ==
    <<"h","t","t","p",":","/","/">>

HTTPS_PREFIX ==
    <<"h","t","t","p","s",":","/","/">>

PAT_pdfrenderer ==
    <<"p","d","f","r","e","n","d","e","r","e","r">>

PAT_pdf_svc ==
    <<"p","d","f",".","s","v","c">>

PAT_htmltopdf ==
    <<"h","t","m","l","t","o","p","d","f">>

PAT_html2pdf ==
    <<"h","t","m","l","2","p","d","f">>

PAT_render ==
    <<"r","e","n","d","e","r">>

PAT_pdf ==
    <<"p","d","f">>

PAT_webshot ==
    <<"w","e","b","s","h","o","t">>

PAT_screenshot ==
    <<"s","c","r","e","e","n","s","h","o","t">>

PAT_snapshot ==
    <<"s","n","a","p","s","h","o","t">>

PAT_proxy_php ==
    <<"p","r","o","x","y",".","p","h","p">>

PAT_fetch_php ==
    <<"f","e","t","c","h",".","p","h","p">>

\* WRAPPER_PATTERNS.test(s): an unanchored, case-insensitive match of the
\* alternation
WRAPPER_PATTERNS(s) ==
    LET t == ToLowerCase(s)
    IN  \/ Contains(t, PAT_pdfrenderer)
        \/ Contains(t, PAT_pdf_svc)
        \/ Contains(t, PAT_htmltopdf)
        \/ Contains(t, PAT_html2pdf)
        \/ ContainsThen(t, PAT_render, PAT_pdf)
        \/ ContainsThen(t, PAT_pdf, PAT_render)
        \/ Contains(t, PAT_webshot)
        \/ Contains(t, PAT_screenshot)
        \/ Contains(t, PAT_snapshot)
        \/ Contains(t, PAT_proxy_php)
        \/ Contains(t, PAT_fetch_php)

P_url ==
    <<"u","r","l">>

P_source ==
    <<"s","o","u","r","c","e">>

P_target ==
    <<"t","a","r","g","e","t">>

P_uri ==
    <<"u","r","i">>

P_link ==
    <<"l","i","n","k">>

P_src ==
    <<"s","r","c">>

URL_PARAM_NAMES ==
    <<P_url, P_source, P_target, P_uri, P_link, P_src>>

\* pathname.replace(/^\/|\/$/g, ""): one leading and one trailing slash go
StripOneSlash(p) ==
    LET a == IF p # <<>> /\ p[1] = "/" THEN From(p, 2) ELSE p
    IN  IF a # <<>> /\ a[Len(a)] = "/" THEN SubSeq(a, 1, Len(a) - 1) ELSE a

\* the segments of the fallback heuristic
Segments(pathname) ==
    Split(StripOneSlash(pathname), "/")

Pending ==
    [kind |-> "pending", value |-> <<>>]

Return(v) ==
    [kind |-> "return", value |-> v]

Throw(e) ==
    [kind |-> "throw", value |-> <<e>>]

\* !candidate: null or the empty string
Falsy(candidate) ==
    candidate = NULL \/ candidate = <<>>

IsAbsoluteHttp(s) ==
    StartsWith(s, HTTP_PREFIX) \/ StartsWith(s, HTTPS_PREFIX)

RECURSIVE UnwrapLoop_NoPrefixCheck(_, _, _, _)
\* UnwrapLoop without the startsWith test of the decoded value
UnwrapLoop_NoPrefixCheck(rawUrl, parsed, isWrapper, i) ==
    IF i > Len(URL_PARAM_NAMES) THEN Return(rawUrl)
    ELSE
      LET candidate == SearchParamsGet(parsed.searchParams, URL_PARAM_NAMES[i])
      IN  IF Falsy(candidate) THEN UnwrapLoop_NoPrefixCheck(rawUrl, parsed, isWrapper, i + 1)
          ELSE
            LET decoded == DecodeURIComponent(candidate)
            IN  IF ~decoded.ok THEN Throw("URIError")
                ELSE IF isWrapper \/ Len(Segments(parsed.pathname)) >= 2
                THEN Return(decoded.value)
                ELSE UnwrapLoop_NoPrefixCheck(rawUrl, parsed, isWrapper, i + 1)

RECURSIVE UnwrapLoop(_, _, _, _)
\* the for loop over URL_PARAM_NAMES from index i on, and the final return
UnwrapLoop(rawUrl, parsed, isWrapper, i) ==
    IF i > Len(URL_PARAM_NAMES) THEN Return(rawUrl)
    ELSE
      LET candidate == SearchParamsGet(parsed.searchParams, URL_PARAM_NAMES[i])
      IN  IF Falsy(candidate) THEN UnwrapLoop(rawUrl, parsed, isWrapper, i + 1)
          ELSE
            LET decoded == DecodeURIComponent(candidate)
            IN  IF ~decoded.ok THEN Throw("URIError")
                ELSE IF IsAbsoluteHttp(decoded.value)
                        /\ (isWrapper \/ Len(Segments(parsed.pathname)) >= 2)
                THEN Return(decoded.value)
                ELSE UnwrapLoop(rawUrl, parsed, isWrapper, i + 1)

\* the reading of an unparsable string as path?query, as a parser that never
\* fails would read it
LenientParse(s) ==
    LET q == FirstOf(s, {"?"}, 1)
    IN  IF q = 0 THEN [ok |-> TRUE, pathname |-> s, searchParams |-> <<>>]
        ELSE [ok |-> TRUE, pathname |-> SubSeq(s, 1, q - 1),
              searchParams |-> SearchParams(From(s, q + 1))]

\* unwrapUrl without the catch of the parser's failure
UnwrapUrl_NoParseCheck(rawUrl) ==
    LET parsed == IF ParseURL(rawUrl).ok THEN ParseURL(rawUrl) ELSE LenientParse(rawUrl)
    IN  UnwrapLoop(rawUrl, parsed, WRAPPER_PATTERNS(parsed.pathname), 1)

\* unwrapUrl with the wrapper patterns tested against the whole URL
UnwrapUrl_TestsHref(rawUrl) ==
    LET parsed == ParseURL(rawUrl)
    IN  IF ~parsed.ok THEN Return(rawUrl)
        ELSE UnwrapLoop(rawUrl, parsed, WRAPPER_PATTERNS(rawUrl), 1)

UnwrapUrl(rawUrl) ==
    LET parsed == ParseURL(rawUrl)
    IN  IF ~parsed.ok THEN Return(rawUrl)
        ELSE UnwrapLoop(rawUrl, parsed, WRAPPER_PATTERNS(parsed.pathname), 1)

-----------------------------------------------------------------------------
(* The URLs unwrapUrl is called with *)

RendererOrigin ==
    <<"h","t","t","p","s",":","/","/","p","d","f","r","e","n","d","e","r","e","r",
      ".","e","x","a","m","p","l","e",".","c","o","m">>

PlainOrigin ==
    <<"h","t","t","p","s",":","/","/","e","x","a","m","p","l","e",".","c","o","m">>

\* two origins, and no origin at all (a relative reference)
Origins ==
    {RendererOrigin, PlainOrigin, <<>>}

SegRender ==
    <<"r","e","n","d","e","r">>

SegProxyPhp ==
    <<"P","r","o","x","y",".","P","H","P">>

SegSet ==
    {<<>>, SegRender, SegProxyPhp}

RECURSIVE PathsOf(_)
\* the paths of exactly n segments, each segment after a slash
PathsOf(n) ==
    IF n = 0 THEN {<<>>}
    ELSE {p \o <<"/">> \o seg : p \in PathsOf(n - 1), seg \in SegSet}

Paths ==
    UNION {PathsOf(n) : n \in 0..MaxSegs}

ValEncodedAbs ==
    <<"h","t","t","p","s","%","3","A","%","2","F","%","2","F","r","e","a","l",".",
      "e","x","a","m","p","l","e",".","c","o","m","%","2","F","d","o","c",".","p","d","f">>

RealDocUrl ==
    <<"h","t","t","p","s",":","/","/","r","e","a","l",".","e","x","a","m","p","l","e",
      ".","c","o","m","/","d","o","c",".","p","d","f">>

ValPlainAbs ==
    <<"h","t","t","p","s",":","/","/","o","t","h","e","r",".","e","x","a","m","p","l","e",
      ".","c","o","m","/","x">>

ValRelative ==
    <<"/","d","o","c",".","p","d","f">>

ValEncodedPercent ==
    <<"h","t","t","p",":","/","/","o",".","e","x","a","m","p","l","e",".","c","o","m",
      "/","1","0","0","%","2","5">>

\* parameter values as written in the query string
ParamValues ==
    {ValEncodedAbs, ValPlainAbs, ValRelative, <<>>, ValEncodedPercent}

ParamNames ==
    {P_url, P_source}

Pairs ==
    {n \o <<"=">> \o v : n \in ParamNames, v \in ParamValues}

RECURSIVE QueriesOf(_)
\* the query strings of exactly n parameters, with their question mark
QueriesOf(n) ==
    IF n = 0 THEN {<<>>}
    ELSE IF n = 1 THEN {<<"?">> \o p : p \in Pairs}
    ELSE {q \o <<"&">> \o p : q \in QueriesOf(n - 1), p \in Pairs}

Queries ==
    UNION {QueriesOf(n) : n \in 0..MaxParams}

-----------------------------------------------------------------------------
(* resolveItemType *)

\* the own properties of ITEM_TYPE_MAP, as <<name, value>> pairs
ITEM_TYPE_MAP ==
    <<<<<<"a","r","t","i","c","l","e">>,
        <<"j","o","u","r","n","a","l","A","r","t","i","c","l","e">>>>,
      <<<<"j","o","u","r","n","a","l">>,
        <<"j","o","u","r","n","a","l","A","r","t","i","c","l","e">>>>,
      <<<<"b","o","o","k">>,
        <<"b","o","o","k">>>>,
      <<<<"c","h","a","p","t","e","r">>,
        <<"b","o","o","k","S","e","c","t","i","o","n">>>>,
      <<<<"c","o","n","f","e","r","e","n","c","e">>,
        <<"c","o","n","f","e","r","e","n","c","e","P","a","p","e","r">>>>,
      <<<<"t","h","e","s","i","s">>,
        <<"t","h","e","s","i","s">>>>,
      <<<<"r","e","p","o","r","t">>,
        <<"r","e","p","o","r","t">>>>,
      <<<<"w","e","b","p","a","g","e">>,
        <<"w","e","b","p","a","g","e">>>>,
      <<<<"b","l","o","g">>,
        <<"b","l","o","g","P","o","s","t">>>>,
      <<<<"n","e","w","s">>,
        <<"n","e","w","s","p","a","p","e","r","A","r","t","i","c","l","e">>>>,
      <<<<"m","a","g","a","z","i","n","e">>,
        <<"m","a","g","a","z","i","n","e","A","r","t","i","c","l","e">>>>,
      <<<<"d","o","c","u","m","e","n","t">>,
        <<"d","o","c","u","m","e","n","t">>>>,
      <<<<"l","e","g","a","l">>,
        <<"s","t","a","t","u","t","e">>>>,
      <<<<"c","a","s","e">>,
        <<"c","a","s","e">>>>,
      <<<<"p","a","t","e","n","t">>,
        <<"p","a","t","e","n","t">>>>,
      <<<<"v","i","d","e","o">>,
        <<"v","i","d","e","o","R","e","c","o","r","d","i","n","g">>>>,
      <<<<"p","o","d","c","a","s","t">>,
        <<"p","o","d","c","a","s","t">>>>,
      <<<<"p","r","e","s","e","n","t","a","t","i","o","n">>,
        <<"p","r","e","s","e","n","t","a","t","i","o","n">>>>>>

\* a JavaScript value that is a string
Str(s) ==
    [type |-> "string", value |-> s]

\* the properties ITEM_TYPE_MAP, an object literal, inherits from
\* Object.prototype, as <<name, value>> pairs: every value is a function or
\* an object, and so truthy
OBJECT_PROTOTYPE ==
    <<<<<<"c","o","n","s","t","r","u","c","t","o","r">>,
        [type |-> "function", value |-> <<"O","b","j","e","c","t">>]>>,
      <<<<"_","_","p","r","o","t","o","_","_">>,
        [type |-> "object", value |-> <<"O","b","j","e","c","t",".","p","r","o","t","o","t","y","p","e">>]>>,
      <<<<"t","o","S","t","r","i","n","g">>,
        [type |-> "function", value |-> <<"t","o","S","t","r","i","n","g">>]>>,
      <<<<"v","a","l","u","e","O","f">>,
        [type |-> "function", value |-> <<"v","a","l","u","e","O","f">>]>>,
      <<<<"h","a","s","O","w","n","P","r","o","p","e","r","t","y">>,
        [type |-> "function", value |-> <<"h","a","s","O","w","n","P","r","o","p","e","r","t","y">>]>>,
      <<<<"i","s","P","r","o","t","o","t","y","p","e","O","f">>,
        [type |-> "function", value |-> <<"i","s","P","r","o","t","o","t","y","p","e","O","f">>]>>,
      <<<<"p","r","o","p","e","r","t","y","I","s","E","n","u","m","e","r","a","b","l","e">>,
        [type |-> "function", value |-> <<"p","r","o","p","e","r","t","y","I","s","E","n","u","m","e","r","a","b","l","e">>]>>,
      <<<<"t","o","L","o","c","a","l","e","S","t","r","i","n","g">>,
        [type |-> "function", value |-> <<"t","o","L","o","c","a","l","e","S","t","r","i","n","g">>]>>>>

\* the undefined of a property that is neither own nor inherited
NoProperty ==
    [type |-> "undefined", value |-> <<>>]

\* ITEM_TYPE_MAP[key]: the own property, else the inherited one, else
\* undefined
ItemTypeMapGet(key) ==
    LET own == {i \in DOMAIN ITEM_TYPE_MAP : ITEM_TYPE_MAP[i][1] = key}
        inherited == {i \in DOMAIN OBJECT_PROTOTYPE : OBJECT_PROTOTYPE[i][1] = key}
    IN  IF own # {} THEN Str(ITEM_TYPE_MAP[CHOOSE i \in own : TRUE][2])
        ELSE IF inherited # {} THEN OBJECT_PROTOTYPE[CHOOSE i \in inherited : TRUE][2]
        ELSE NoProperty

\* resolveItemType with the key looked up as it is written
ResolveItemType_CaseSensitive(name) ==
    LET v == ItemTypeMapGet(name)
    IN  IF v = NoProperty THEN Str(name) ELSE v

\* ITEM_TYPE_MAP[simple.toLowerCase()] || simple
ResolveItemType(name) ==
    LET v == ItemTypeMapGet(ToLowerCase(name))
    IN  IF v = NoProperty THEN Str(name) ELSE v

-----------------------------------------------------------------------------
(* createItem: filling the template *)

\* a parameter the caller left out
UNDEFINED ==
    "undefined"

\* undefined, where the parameter is a URL
ABSENT ==
    <<"undefined">>

\* the truthiness of a string parameter
Truthy(v) ==
    v # UNDEFINED /\ v # ""

\* template.k = v
Assign(t, k, v) ==
    [x \in DOMAIN t \cup {k} |-> IF x = k THEN v ELSE t[x]]

\* GatedAssign without the test of the template's keys
GatedAssign_Ungated(t, k, v) ==
    IF Truthy(v) THEN Assign(t, k, v) ELSE t

\* if (v && "k" in template) template.k = v
GatedAssign(t, k, v) ==
    IF Truthy(v) /\ k \in DOMAIN t THEN Assign(t, k, v) ELSE t

\* title, date, url, abstract, extra
FillBasics(t, a) ==
    LET t1 == Assign(t, "title", a.title)
        t2 == IF Truthy(a.date) THEN Assign(t1, "date", a.date) ELSE t1
        t3 == GatedAssign(t2, "url", a.url)
        t4 == GatedAssign(t3, "abstractNote", a.abstract)
    IN  GatedAssign(t4, "extra", a.extra)

\* FillPublication with every title field the template has written
FillPublication_EveryDeclared(t, a) ==
    LET t1 == GatedAssign(t, "publicationTitle", a.publication)
        t2 == GatedAssign(t1, "blogTitle", a.publication)
    IN  GatedAssign(t2, "websiteTitle", a.publication)

\* publication: the first of the three title fields the template has
FillPublication(t, a) ==
    IF ~Truthy(a.publication) THEN t
    ELSE IF "publicationTitle" \in DOMAIN t THEN Assign(t, "publicationTitle", a.publication)
    ELSE IF "blogTitle" \in DOMAIN t THEN Assign(t, "blogTitle", a.publication)
    ELSE IF "websiteTitle" \in DOMAIN t THEN Assign(t, "websiteTitle", a.publication)
    ELSE t

\* FillIdentifiers with the DOI written whenever doi is supplied
FillIdentifiers_UngatedDoi(t, a) ==
    LET t1 == GatedAssign(t, "volume", a.volume)
        t2 == GatedAssign(t1, "issue", a.issue)
        t3 == GatedAssign(t2, "pages", a.pages)
    IN  IF Truthy(a.doi) THEN Assign(t3, "DOI", a.doi) ELSE t3

\* volume, issue, pages, doi
FillIdentifiers(t, a) ==
    LET t1 == GatedAssign(t, "volume", a.volume)
        t2 == GatedAssign(t1, "issue", a.issue)
        t3 == GatedAssign(t2, "pages", a.pages)
    IN  GatedAssign(t3, "DOI", a.doi)

Whitespace ==
    {" ", "\t", "\n"}

RECURSIVE Trim(_)
\* String.prototype.trim
Trim(s) ==
    IF s # <<>> /\ s[1] \in Whitespace THEN Trim(From(s, 2))
    ELSE IF s # <<>> /\ s[Len(s)] \in Whitespace THEN Trim(SubSeq(s, 1, Len(s) - 1))
    ELSE s

RECURSIVE SplitWhitespace(_)
\* split(/\s+/) of a trimmed string
SplitWhitespace(s) ==
    LET i == FirstOf(s, Whitespace, 1)
    IN  IF i = 0 THEN <<s>>
        ELSE <<SubSeq(s, 1, i - 1)>> \o SplitWhitespace(Trim(From(s, i)))

RECURSIVE JoinSpace(_)
\* Array.prototype.join(" ")
JoinSpace(parts) ==
    IF parts = <<>> THEN <<>>
    ELSE IF Len(parts) = 1 THEN parts[1]
    ELSE parts[1] \o <<" ">> \o JoinSpace(Tail(parts))

\* AuthorToCreator with the first token alone as first name
AuthorToCreator_FirstTokenOnly(name) ==
    LET parts == SplitWhitespace(Trim(name))
    IN  IF Len(parts) >= 2
        THEN [creatorType |-> "author",
              firstName |-> parts[1],
              lastName |-> parts[Len(parts)]]
        ELSE [creatorType |-> "author", name |-> name]

\* the creator made of one author name
AuthorToCreator(name) ==
    LET parts == SplitWhitespace(Trim(name))
    IN  IF Len(parts) >= 2
        THEN [creatorType |-> "author",
              firstName |-> JoinSpace(SubSeq(parts, 1, Len(parts) - 1)),
              lastName |-> parts[Len(parts)]]
        ELSE [creatorType |-> "author", name |-> name]

\* authors
FillAuthors(t, a) ==
    IF Len(a.authors) > 0 /\ "creators" \in DOMAIN t
    THEN Assign(t, "creators", [i \in 1..Len(a.authors) |-> AuthorToCreator(a.authors[i])])
    ELSE t

\* tags and collection
FillTagsAndCollection(t, a) ==
    LET t1 == IF Len(a.tags) > 0
              THEN Assign(t, "tags", [i \in 1..Len(a.tags) |-> [tag |-> a.tags[i]]])
              ELSE t
    IN  IF Truthy(a.collectionId) THEN Assign(t1, "collections", <<a.collectionId>>) ELSE t1

\* the template as createItem posts it
FillTemplate(t, a) ==
    FillTagsAndCollection(
        FillAuthors(FillIdentifiers(FillPublication(FillBasics(t, a), a), a), a), a)

-----------------------------------------------------------------------------
(* formatItemSummary and the listing functions *)

\* raw.data || raw
DataOf(r) ==
    IF "data" \in DOMAIN r THEN r.data ELSE r

\* d.k || fallback, for a string property k
StringOr(d, k, fallback) ==
    IF k \in DOMAIN d /\ d[k] # "" THEN d[k] ELSE fallback

\* c.k || "", for a property k of a creator
NameOr(c, k) ==
    IF k \in DOMAIN c THEN c[k] ELSE <<>>

\* c.name ? c.name : `${c.firstName || ""} ${c.lastName || ""}`.trim()
CreatorDisplay(c) ==
    IF NameOr(c, "name") # <<>> THEN c.name
    ELSE Trim(NameOr(c, "firstName") \o <<" ">> \o NameOr(c, "lastName"))

RECURSIVE Join(_, _)
\* Array.prototype.join(sep)
Join(parts, sep) ==
    IF parts = <<>> THEN <<>>
    ELSE IF Len(parts) = 1 THEN parts[1]
    ELSE parts[1] \o sep \o Join(Tail(parts), sep)

\* the creators string with every empty display kept
CreatorsString_KeepsEmpty(d) ==
    LET list == IF "creators" \in DOMAIN d THEN d.creators ELSE <<>>
    IN  Join([i \in 1..Len(list) |-> CreatorDisplay(list[i])], <<";", " ">>)

\* (d.creators || []).map(...).filter(Boolean).join("; ")
CreatorsString(d) ==
    LET list == IF "creators" \in DOMAIN d THEN d.creators ELSE <<>>
        shown == [i \in 1..Len(list) |-> CreatorDisplay(list[i])]
    IN  Join(SelectSeq(shown, LAMBDA x : x # <<>>), <<";", " ">>)

\* t.tag || t, a tag entry being an object or, written [string |-> t], a
\* bare string
TagName(t) ==
    IF "string" \in DOMAIN t THEN t.string ELSE t.tag

\* the summary object; a null string property is written "null"
FormatItemSummary(r) ==
    LET d == DataOf(r)
        creators == CreatorsString(d)
        tags == IF "tags" \in DOMAIN d THEN d.tags ELSE <<>>
    IN  [key |-> StringOr(r, "key", StringOr(d, "key", UNDEFINED)),
         title |-> StringOr(d, "title", "(untitled)"),
         itemType |-> IF "itemType" \in DOMAIN d THEN d.itemType ELSE UNDEFINED,
         creators |-> IF creators = <<>> THEN NULL ELSE creators,
         date |-> StringOr(d, "date", "null"),
         tags |-> [i \in 1..Len(tags) |-> TagName(tags[i])],
         url |-> StringOr(d, "url", "null")]

\* r.data?.itemType !== "attachment" && r.data?.itemType !== "note"
IsTopLevel(r) ==
    ~("data" \in DOMAIN r /\ "itemType" \in DOMAIN r.data
        /\ r.data.itemType \in {"attachment", "note"})

\* (response.raw || []).filter(...).map(formatItemSummary)
ListedItems(raws) ==
    LET kept == SelectSeq(raws, IsTopLevel)
    IN  [i \in 1..Len(kept) |-> FormatItemSummary(kept[i])]

-----------------------------------------------------------------------------
(* The metadata createItem is called with, and the templates it is given *)

\* the optional string parameters of createItem
StringInputs ==
    {"date", "url", "abstract", "publication", "volume", "issue", "pages",
     "doi", "collectionId", "extra"}

OptionalInputs ==
    StringInputs \cup {"authors", "tags"}

\* a non-empty value of each string parameter
SampleValue ==
    [date |-> "2025-07-25", url |-> "https://example.com/a",
     abstract |-> "An abstract", publication |-> "A Journal", volume |-> "12",
     issue |-> "3", pages |-> "1-10", doi |-> "10.1000/x", collectionId |-> "COLL0001",
     extra |-> "a note"]

AuthorJane ==
    <<"J","a","n","e"," ","Q","."," ","P","u","b","l","i","c">>

AuthorWHO ==
    <<"W","H","O">>

\* how the caller passes each optional parameter: not at all, empty, or
\* with a value; at most MaxSupplied of them are passed
Supplies ==
    UNION {
        {[f \in OptionalInputs |-> IF f \in S THEN g[f] ELSE "undefined"] :
            g \in [S -> {"empty", "value"}]} :
        S \in {X \in SUBSET OptionalInputs : Cardinality(X) <= MaxSupplied}}

StringArg(how, f) ==
    IF how[f] = "value" THEN SampleValue[f]
    ELSE IF how[f] = "empty" THEN ""
    ELSE UNDEFINED

\* the parameter object of the call, authors and tags defaulting to []
Args(how) ==
    [title |-> "A Title",
     authors |-> IF how["authors"] = "value" THEN <<AuthorJane, AuthorWHO>> ELSE <<>>,
     tags |-> IF how["tags"] = "value" THEN <<"tag1", "tag2">> ELSE <<>>,
     date |-> StringArg(how, "date"),
     url |-> StringArg(how, "url"),
     abstract |-> StringArg(how, "abstract"),
     publication |-> StringArg(how, "publication"),
     volume |-> StringArg(how, "volume"),
     issue |-> StringArg(how, "issue"),
     pages |-> StringArg(how, "pages"),
     doi |-> StringArg(how, "doi"),
     collectionId |-> StringArg(how, "collectionId"),
     extra |-> StringArg(how, "extra")]

NoArgs ==
    Args([f \in OptionalInputs |-> "undefined"])

PublicationFields ==
    {"publicationTitle", "blogTitle", "websiteTitle"}

ListFields ==
    {"creators", "tags", "collections"}

OtherFields ==
    {"title", "date", "url", "abstractNote", "extra", "volume", "issue", "pages",
     "DOI"} \cup ListFields

\* a blank template declaring the fields K
BlankTemplate(K) ==
    [k \in K \cup {"itemType"} |->
        IF k = "itemType" THEN "someType"
        ELSE IF k \in ListFields THEN <<>>
        ELSE ""]

\* the templates the service may return: any choice of the publication
\* title fields with at most MaxKeys of the other fields
Templates ==
    {BlankTemplate(P \cup K) :
        P \in SUBSET PublicationFields,
        K \in {X \in SUBSET OtherFields : Cardinality(X) <= MaxKeys}}

-----------------------------------------------------------------------------
(* The calls of createItem (without pdfUrl and snapshotUrl) *)

NoResult ==
    [status |-> "pending"]

Failure(msg) ==
    [status |-> "returned", success |-> FALSE, error |-> msg]

Created(key) ==
    [status |-> "returned", success |-> TRUE, item_key |-> key]

CreateIdle ==
    /\ pc = "idle"
    /\ args = NoArgs
    /\ fetched = BlankTemplate({})
    /\ template = BlankTemplate({})
    /\ posted = <<>>
    /\ result = NoResult

\* no call of the authors.map callback under way
NoCreator ==
    [creatorType |-> "none"]

CreatorIdle ==
    /\ authorName = <<>>
    /\ creator = NoCreator

\* no call of resolveItemType under way
NoType ==
    [type |-> "pending", value |-> <<>>]

ResolveIdle ==
    /\ simple = <<>>
    /\ zoteroType = NoType
    /\ zoteroTypeAgain = NoType

\* no call of formatItemSummary under way
NoSummary ==
    [key |-> "pending"]

SummaryIdle ==
    /\ item = [key |-> "none"]
    /\ summary = NoSummary

\* no call of a listing function under way
ListIdle ==
    /\ listOp = "none"
    /\ rows = <<>>
    /\ listing = [status |-> "pending"]

\* no call of an attach function under way, and no attachment asked of
\* createItem
AttachIdle ==
    /\ pdfUrl = ABSENT
    /\ snapshotUrl = ABSENT
    /\ attachCaller = "none"
    /\ attachKind = "none"
    /\ attachUrl = <<>>
    /\ fetchUrl = <<>>
    /\ attachPc = "idle"
    /\ downloads = 0
    /\ download = "none"
    /\ attachResult = NoResult
    /\ attachments = <<>>
    /\ attempted = <<>>

\* no tool call under way
ToolIdle ==
    /\ tool = "none"
    /\ env = [ZOTERO_API_KEY |-> "", ZOTERO_LIBRARY_ID |-> ""]
    /\ upstream = "none"
    /\ toolResult = NoResult

\* no call of updateItem under way
UpdateIdle ==
    /\ changes = [item_key |-> "none"]
    /\ current = [key |-> "none"]
    /\ patched = <<>>
    /\ updatePc = "idle"
    /\ updateResult = NoResult

\* no call of getItemFulltext under way
FulltextIdle ==
    /\ fulltextPc = "idle"
    /\ childRows = <<>>
    /\ requests = <<>>
    /\ fulltextResult = NoResult

\* the setup app has handled no save-config
ConfigIdle ==
    /\ platform = "darwin"
    /\ settingsFile = [kind |-> "absent"]
    /\ configFile = [kind |-> "absent"]
    /\ saves = 0
    /\ saveResult = NoResult

\* no call of testZoteroConnection under way
ConnIdle ==
    /\ connArgs = [apiKey |-> "", libraryId |-> ""]
    /\ request = "none"
    /\ events = <<>>
    /\ settled = [state |-> "none"]

\* the setup form has not been opened
FormIdle ==
    /\ libraryIdValue = <<>>
    /\ apiKeyValue = <<>>
    /\ btnTestDisabled = TRUE
    /\ btnSaveDisabled = TRUE
    /\ testsInFlight = 0
    /\ savesInFlight = 0
    /\ formShown = TRUE
    /\ statusPending = TRUE

InitCreateItem ==
    /\ raw = <<>>
    /\ unwrapResult = Pending
    /\ CreateIdle
    /\ CreatorIdle
    /\ ResolveIdle
    /\ SummaryIdle
    /\ ListIdle
    /\ AttachIdle
    /\ ToolIdle
    /\ UpdateIdle
    /\ FulltextIdle
    /\ ConfigIdle
    /\ ConnIdle
    /\ FormIdle

\* the call: the item type is resolved and its template requested
CreateItemCall ==
    /\ pc = "idle"
    /\ \E how \in Supplies : args' = Args(how)
    /\ pc' = "getTemplate"
    /\ UNCHANGED <<fetched, template, posted, result>>

\* getItemTemplate throws: the item type is reported invalid
GetItemTemplateThrows ==
    /\ pc = "getTemplate"
    /\ result' = Failure("Invalid item type")
    /\ pc' = "done"
    /\ UNCHANGED <<args, fetched, template, posted>>

\* getItemTemplate returns a template: it is filled and posted
GetItemTemplateReturns ==
    /\ pc = "getTemplate"
    /\ \E t \in Templates :
          /\ fetched' = t
          /\ template' = FillTemplate(t, args)
    /\ posted' = Append(posted, template')
    /\ pc' = "post"
    /\ UNCHANGED <<args, result>>

\* if (u): a URL parameter is neither undefined nor the empty string
UrlGiven(u) ==
    u # ABSENT /\ u # <<>>

\* FirstAttachment with the snapshot taking priority
FirstAttachment_SnapshotFirst(pdf, snapshot) ==
    IF UrlGiven(snapshot) THEN "snapshot"
    ELSE IF UrlGiven(pdf) THEN "pdf"
    ELSE "none"

\* if (pdfUrl) ... else if (snapshotUrl) ...: the attachment createItem
\* goes on to
FirstAttachment(pdf, snapshot) ==
    IF UrlGiven(pdf) THEN "pdf"
    ELSE IF UrlGiven(snapshot) THEN "snapshot"
    ELSE "none"

\* the post answers, with or without a created entity; with an entity and
\* a pdfUrl or, failing that, a snapshotUrl, the attach function is called
PostReturns ==
    /\ pc = "post"
    /\ \E successful \in BOOLEAN :
          IF successful /\ FirstAttachment(pdfUrl, snapshotUrl) # "none"
          THEN /\ pc' = "attach"
               /\ attachCaller' = "createItem"
               /\ attachKind' = FirstAttachment(pdfUrl, snapshotUrl)
               /\ attachUrl' = IF attachKind' = "pdf" THEN pdfUrl ELSE snapshotUrl
               /\ attempted' = Append(attempted, attachKind')
               /\ attachPc' = "unwrap"
               /\ UNCHANGED <<result, pdfUrl, snapshotUrl, fetchUrl, downloads,
                              download, attachResult, attachments>>
          ELSE /\ result' = IF successful THEN Created("ITEMKEY1")
                            ELSE Failure("Failed to create item")
               /\ pc' = "done"
               /\ UNCHANGED attachVars
    /\ UNCHANGED <<args, fetched, template, posted>>

\* the post throws
PostThrows ==
    /\ pc = "post"
    /\ result' = Failure("post failed")
    /\ pc' = "done"
    /\ UNCHANGED <<args, fetched, template, posted>>

\* what a call of createItem without attachment leaves alone
createFrame ==
    <<unwrapVars, creatorVars, resolveVars, summaryVars, listVars, toolVars,
      updateVars, fulltextVars, configVars, connVars, formVars>>

NextCreateItem ==
    \/ CreateItemCall /\ UNCHANGED <<createFrame, attachVars>>
    \/ GetItemTemplateThrows /\ UNCHANGED <<createFrame, attachVars>>
    \/ GetItemTemplateReturns /\ UNCHANGED <<createFrame, attachVars>>
    \/ PostReturns /\ UNCHANGED createFrame
    \/ PostThrows /\ UNCHANGED <<createFrame, attachVars>>

SpecCreateItem ==
    InitCreateItem /\ [][NextCreateItem]_vars

-----------------------------------------------------------------------------
(* attachPdfFromUrl and attachSnapshot, called by their tools or by        *)
(* createItem                                                              *)

\* the URLs an attachment is asked from: a document, a wrapper around an
\* encoded document URL, and a wrapper around a URL that ends in an encoded
\* percent sign
AttachUrls ==
    {RealDocUrl,
     PlainOrigin \o <<"/">> \o SegProxyPhp \o <<"?">> \o P_url \o <<"=">> \o ValEncodedAbs,
     PlainOrigin \o <<"/">> \o SegProxyPhp \o <<"?">> \o P_url \o <<"=">> \o ValEncodedPercent}

\* save_item with a pdf_url, a snapshot_url, both or neither, each a URL
\* or the empty string
SaveItemCall ==
    /\ pc = "idle"
    /\ attachPc = "idle"
    /\ args' = NoArgs
    /\ pdfUrl' \in AttachUrls \cup {<<>>, ABSENT}
    /\ snapshotUrl' \in AttachUrls \cup {<<>>, ABSENT}
    /\ pc' = "getTemplate"
    /\ UNCHANGED <<fetched, template, posted, result>>
    /\ UNCHANGED <<attachCaller, attachKind, attachUrl, fetchUrl, attachPc, downloads,
                   download, attachResult, attachments, attempted>>

\* attach_pdf or attach_snapshot on an existing item
AttachCall ==
    /\ pc = "idle"
    /\ attachPc = "idle"
    /\ attachCaller' = "tool"
    /\ attachKind' \in {"pdf", "snapshot"}
    /\ attachUrl' \in AttachUrls
    /\ attempted' = Append(attempted, attachKind')
    /\ attachPc' = "unwrap"
    /\ UNCHANGED <<pdfUrl, snapshotUrl, fetchUrl, downloads, download, attachResult,
                   attachments>>
    /\ UNCHANGED createVars

\* the attach function raised
Raised(e) ==
    [status |-> "raised", error |-> e]

\* the attach function ends with the outcome res: a standalone call is
\* over; createItem stores a returned object in its result and returns it,
\* and its catch turns an exception into a failure
AttachEnds(res) ==
    /\ attachPc' = "done"
    /\ attachResult' = res
    /\ IF attachCaller = "createItem"
       THEN /\ pc' = "done"
            /\ result' = IF res.status = "raised" THEN Failure(res.error)
                         ELSE Assign(Created("ITEMKEY1"),
                                     IF attachKind = "pdf" THEN "pdf_attachment"
                                     ELSE "snapshot_attachment", res)
       ELSE UNCHANGED <<pc, result>>

\* url = unwrapUrl(url), before the try
AttachUnwraps ==
    /\ attachPc = "unwrap"
    /\ LET u == UnwrapUrl(attachUrl)
       IN  IF u.kind = "throw"
           THEN /\ AttachEnds(Raised("URI malformed"))
                /\ UNCHANGED fetchUrl
           ELSE /\ fetchUrl' = u.value
                /\ attachPc' = "fetch"
                /\ UNCHANGED <<pc, result, attachResult>>
    /\ UNCHANGED <<pdfUrl, snapshotUrl, attachCaller, attachKind, attachUrl, downloads,
                   download, attachments, attempted>>
    /\ UNCHANGED <<args, fetched, template, posted>>

\* how a download request may end: a response that is ok, a response that
\* is not, the 60 s timeout, or a network error
DownloadOutcomes ==
    {"ok", "http error", "timeout", "network error"}

\* AfterDownload with the request issued again after a timeout
AfterDownload_RetriesTimeout(outcome) ==
    IF outcome = "ok" THEN "body"
    ELSE IF outcome = "timeout" THEN "fetch"
    ELSE "done"

\* AfterDownload without the test of response.ok
AfterDownload_IgnoresStatus(outcome) ==
    IF outcome \in {"ok", "http error"} THEN "body" ELSE "done"

\* where the call stands after the download request
AfterDownload(outcome) ==
    IF outcome = "ok" THEN "body" ELSE "done"

\* await fetch(url, {signal: AbortSignal.timeout(60000)}) and the test of
\* response.ok
FetchResponds ==
    /\ attachPc = "fetch"
    /\ downloads' = downloads + 1
    /\ \E outcome \in DownloadOutcomes :
          /\ download' = outcome
          /\ IF AfterDownload(outcome) = "done"
             THEN AttachEnds(Failure(outcome))
             ELSE /\ attachPc' = AfterDownload(outcome)
                  /\ UNCHANGED <<pc, result, attachResult>>
    /\ UNCHANGED <<pdfUrl, snapshotUrl, attachCaller, attachKind, attachUrl, fetchUrl,
                   attachments, attempted>>
    /\ UNCHANGED <<args, fetched, template, posted>>

\* the body is read: bytes, nothing, or the read fails
BodyRead ==
    /\ attachPc = "body"
    /\ \E outcome \in {"bytes", "empty", "read error"} :
          IF outcome = "bytes"
          THEN /\ attachPc' = "create"
               /\ UNCHANGED <<pc, result, attachResult>>
          ELSE AttachEnds(Failure(outcome))
    /\ UNCHANGED <<pdfUrl, snapshotUrl, attachCaller, attachKind, attachUrl, fetchUrl,
                   downloads, download, attachments, attempted>>
    /\ UNCHANGED <<args, fetched, template, posted>>

\* the attachment item is posted: the post answers with an entity or
\* without, or throws
AttachmentItemPosted ==
    /\ attachPc = "create"
    /\ posted' = Append(posted, [itemType |-> "attachment",
                                  linkMode |-> "imported_file",
                                  contentType |-> IF attachKind = "pdf"
                                                  THEN "application/pdf" ELSE "text/html"])
    /\ \E outcome \in {"entity", "no entity", "post failed"} :
          IF outcome = "entity"
          THEN /\ attachments' = Append(attachments, "ATTACH01")
               /\ attachPc' = "upload"
               /\ UNCHANGED <<pc, result, attachResult>>
          ELSE /\ AttachEnds(Failure(outcome))
               /\ UNCHANGED attachments
    /\ UNCHANGED <<pdfUrl, snapshotUrl, attachCaller, attachKind, attachUrl, fetchUrl,
                   downloads, download, attempted>>
    /\ UNCHANGED <<args, fetched, template>>

\* the file is uploaded: the upload answers ok or not, or throws (the
\* filename, title and size of the success object are left out)
UploadResponds ==
    /\ attachPc = "upload"
    /\ \E outcome \in {"ok", "not ok", "upload failed"} :
          AttachEnds(CASE outcome = "ok" ->
                            [status |-> "returned", success |-> TRUE,
                             attachment_key |-> "ATTACH01"]
                       [] outcome = "not ok" ->
                            [status |-> "returned", success |-> FALSE,
                             error |-> "file upload failed",
                             attachment_key |-> "ATTACH01"]
                       [] OTHER -> Failure(outcome))
    /\ UNCHANGED <<pdfUrl, snapshotUrl, attachCaller, attachKind, attachUrl, fetchUrl,
                   downloads, download, attachments, attempted>>
    /\ UNCHANGED <<args, fetched, template, posted>>

InitAttach ==
    /\ raw = <<>>
    /\ unwrapResult = Pending
    /\ CreateIdle
    /\ CreatorIdle
    /\ ResolveIdle
    /\ SummaryIdle
    /\ ListIdle
    /\ AttachIdle
    /\ ToolIdle
    /\ UpdateIdle
    /\ FulltextIdle
    /\ ConfigIdle
    /\ ConnIdle
    /\ FormIdle

NextAttach ==
    \/ SaveItemCall /\ UNCHANGED createFrame
    \/ GetItemTemplateThrows /\ UNCHANGED <<createFrame, attachVars>>
    \/ GetItemTemplateReturns /\ UNCHANGED <<createFrame, attachVars>>
    \/ PostReturns /\ UNCHANGED createFrame
    \/ PostThrows /\ UNCHANGED <<createFrame, attachVars>>
    \/ AttachCall /\ UNCHANGED createFrame
    \/ AttachUnwraps /\ UNCHANGED createFrame
    \/ FetchResponds /\ UNCHANGED createFrame
    \/ BodyRead /\ UNCHANGED createFrame
    \/ AttachmentItemPosted /\ UNCHANGED createFrame
    \/ UploadResponds /\ UNCHANGED createFrame

SpecAttach ==
    InitAttach /\ [][NextAttach]_vars

-----------------------------------------------------------------------------
(* The tool handlers of the server that call the library *)

\* the tools whose helper returns {success: false, error} on a failure
WriteTools ==
    {"save_item", "attach_pdf", "attach_snapshot", "create_collection", "create_note",
     "update_item"}

\* the tools whose helper, or whose handler for list_collections, returns
\* {error} on a failure
ReadTools ==
    {"search_items", "get_item", "get_item_fulltext", "get_collection_items",
     "get_recent_items", "list_tags", "list_collections"}

\* the tools whose handler calls neither getCredentials nor the library
LocalTools ==
    {"get_help", "prepare_url", "get_item_types"}

\* how the library may answer the requests of a helper
UpstreamOutcomes ==
    {"ok", "network error", "upstream rejection", "malformed response"}

\* the test of getCredentials reading the API key only
CredentialsMissing_KeyOnly ==
    ~Truthy(env.ZOTERO_API_KEY)

\* !apiKey || !libraryId
CredentialsMissing ==
    ~Truthy(env.ZOTERO_API_KEY) \/ ~Truthy(env.ZOTERO_LIBRARY_ID)

\* the object a tool's helper returns when a request failed with msg
HelperFailure(t, msg) ==
    IF t \in WriteTools THEN [success |-> FALSE, error |-> msg]
    ELSE [error |-> msg]

\* the object a tool's helper returns when every request succeeded
HelperSuccess(t) ==
    IF t \in WriteTools THEN [success |-> TRUE] ELSE [data |-> "found"]

InitTools ==
    /\ raw = <<>>
    /\ unwrapResult = Pending
    /\ CreateIdle
    /\ CreatorIdle
    /\ ResolveIdle
    /\ SummaryIdle
    /\ ListIdle
    /\ AttachIdle
    /\ ToolIdle
    /\ UpdateIdle
    /\ FulltextIdle
    /\ ConfigIdle
    /\ ConnIdle
    /\ FormIdle

\* a tool is called, the environment holding each credential or not
ToolCall ==
    /\ tool = "none"
    /\ tool' \in WriteTools \cup ReadTools \cup LocalTools
    /\ env' \in [ZOTERO_API_KEY : {UNDEFINED, "", "key"},
                 ZOTERO_LIBRARY_ID : {UNDEFINED, "", "123"}]
    /\ UNCHANGED <<upstream, toolResult>>

\* get_help, prepare_url or get_item_types returns its text
LocalToolReturns ==
    /\ tool \in LocalTools
    /\ toolResult = NoResult
    /\ toolResult' = [status |-> "returned", body |-> [data |-> tool]]
    /\ UNCHANGED <<tool, env, upstream>>

\* getCredentials throws, outside any try of the handler
GetCredentialsThrows ==
    /\ tool \in WriteTools \cup ReadTools
    /\ toolResult = NoResult
    /\ CredentialsMissing
    /\ toolResult' = Raised("Zotero not configured")
    /\ UNCHANGED <<tool, env, upstream>>

\* the helper returns, and the handler returns its object as text
HelperReturns ==
    /\ tool \in WriteTools \cup ReadTools
    /\ toolResult = NoResult
    /\ ~CredentialsMissing
    /\ upstream' \in UpstreamOutcomes
    /\ toolResult' = [status |-> "returned",
                      body |-> IF upstream' = "ok" THEN HelperSuccess(tool)
                               ELSE HelperFailure(tool, upstream')]
    /\ UNCHANGED <<tool, env>>

\* attachPdfFromUrl or attachSnapshot raises in unwrapUrl, before its try
HelperRaises ==
    /\ tool \in {"attach_pdf", "attach_snapshot"}
    /\ toolResult = NoResult
    /\ ~CredentialsMissing
    /\ \E u \in AttachUrls :
          /\ UnwrapUrl(u).kind = "throw"
          /\ toolResult' = Raised("URI malformed")
    /\ UNCHANGED <<tool, env, upstream>>

\* what a tool call leaves alone
toolFrame ==
    <<unwrapVars, createVars, creatorVars, resolveVars, summaryVars, listVars,
      attachVars, updateVars, fulltextVars, configVars, connVars, formVars>>

NextTools ==
    \/ ToolCall /\ UNCHANGED toolFrame
    \/ LocalToolReturns /\ UNCHANGED toolFrame
    \/ GetCredentialsThrows /\ UNCHANGED toolFrame
    \/ HelperReturns /\ UNCHANGED toolFrame
    \/ HelperRaises /\ UNCHANGED toolFrame

SpecTools ==
    InitTools /\ [][NextTools]_vars

-----------------------------------------------------------------------------
(* updateItem *)

RECURSIVE AddMissing_PushesAll(_, _)
\* AddMissing without the test of updated.includes(t)
AddMissing_PushesAll(updated, add) ==
    IF add = <<>> THEN updated
    ELSE AddMissing_PushesAll(Append(updated, Head(add)), Tail(add))

RECURSIVE AddMissing(_, _)
\* for (const t of add) if (!updated.includes(t)) updated.push(t)
AddMissing(updated, add) ==
    IF add = <<>> THEN updated
    ELSE IF Head(add) \in Range(updated) THEN AddMissing(updated, Tail(add))
    ELSE AddMissing(Append(updated, Head(add)), Tail(add))

\* t => ({tag: t}) over a list of names
AsTagObjects(names) ==
    [i \in 1..Len(names) |-> [tag |-> names[i]]]

\* the tag handling: replace, or add and remove; an array, empty or not,
\* is truthy
UpdateTags(data, c) ==
    IF "tags" \in DOMAIN c THEN Assign(data, "tags", AsTagObjects(c.tags))
    ELSE
      LET had == IF "tags" \in DOMAIN data THEN data.tags ELSE <<>>
          existingTags == [i \in 1..Len(had) |-> TagName(had[i])]
          added == IF "add_tags" \in DOMAIN c THEN AddMissing(existingTags, c.add_tags)
                   ELSE existingTags
          updated == IF "remove_tags" \in DOMAIN c
                     THEN SelectSeq(added, LAMBDA t : t \notin Range(c.remove_tags))
                     ELSE added
      IN  IF "add_tags" \in DOMAIN c \/ "remove_tags" \in DOMAIN c
          THEN Assign(data, "tags", AsTagObjects(updated))
          ELSE data

\* if (changes.k !== undefined) data.f = changes.k
AssignIfDefined(data, f, c, k) ==
    IF k \in DOMAIN c THEN Assign(data, f, c[k]) ELSE data

\* the data sent with patch: the data read, with the changes applied
ApplyChanges(data, c) ==
    LET d1 == AssignIfDefined(data, "title", c, "title")
        d2 == AssignIfDefined(d1, "abstractNote", c, "abstract")
        d3 == AssignIfDefined(d2, "date", c, "date")
        d4 == AssignIfDefined(d3, "extra", c, "extra")
    IN  AssignIfDefined(UpdateTags(d4, c), "collections", c, "collections")

TagNames ==
    {"a", "b", "c"}

\* the lists of at most MaxTagList names a caller may pass
TagLists ==
    UNION {[1..n -> TagNames] : n \in 0..MaxTagList}

\* the changes a caller may ask for: a tags list or none, with any
\* add_tags and remove_tags, or one other field alone
ChangeSets ==
    {[k \in S |-> c[k]] :
        c \in [tags : {<<>>, <<"c", "a">>}, add_tags : TagLists, remove_tags : TagLists],
        S \in SUBSET {"tags", "add_tags", "remove_tags"}}
    \cup {[title |-> "New Title"], [abstract |-> "New abstract"], [date |-> "2026"],
           [extra |-> "New extra"], [collections |-> <<"COLL0001">>]}

\* the data of the item as the library holds it: no tags property, or at
\* most MaxTagList distinct tags, the tag b being an automatic one
StoredData ==
    {[itemType |-> "webpage", title |-> "A Title"]}
    \cup {[itemType |-> "webpage", title |-> "A Title",
           tags |-> [i \in 1..Len(l) |-> IF l[i] = "b" THEN [tag |-> "b", type |-> 1]
                                          ELSE [tag |-> l[i]]]] :
           l \in {x \in TagLists : \A i, j \in 1..Len(x) : x[i] = x[j] => i = j}}

InitUpdate ==
    /\ raw = <<>>
    /\ unwrapResult = Pending
    /\ CreateIdle
    /\ CreatorIdle
    /\ ResolveIdle
    /\ SummaryIdle
    /\ ListIdle
    /\ AttachIdle
    /\ ToolIdle
    /\ UpdateIdle
    /\ FulltextIdle
    /\ ConfigIdle
    /\ ConnIdle
    /\ FormIdle

\* the call: the item is requested
UpdateItemCall ==
    /\ updatePc = "idle"
    /\ changes' \in ChangeSets
    /\ updatePc' = "get"
    /\ UNCHANGED <<current, patched, updateResult>>

\* the item is returned: the changes are applied to a copy of its data,
\* which is sent with patch
ItemGetReturns ==
    /\ updatePc = "get"
    /\ current' \in StoredData
    /\ patched' = Append(patched, ApplyChanges(current', changes))
    /\ updatePc' = "patch"
    /\ UNCHANGED <<changes, updateResult>>

\* the request of the item throws
ItemGetThrows ==
    /\ updatePc = "get"
    /\ updateResult' = Failure("get failed")
    /\ updatePc' = "done"
    /\ UNCHANGED <<changes, current, patched>>

\* the object returned once the patch is accepted
Updated(key) ==
    [status |-> "returned", success |-> TRUE, item_key |-> key, message |-> "updated"]

\* the patch is accepted, or throws
PatchResponds ==
    /\ updatePc = "patch"
    /\ \E accepted \in BOOLEAN :
          updateResult' = IF accepted THEN Updated("ITEMKEY1") ELSE Failure("patch failed")
    /\ updatePc' = "done"
    /\ UNCHANGED <<changes, current, patched>>

\* what a call of updateItem leaves alone
updateFrame ==
    <<unwrapVars, createVars, creatorVars, resolveVars, summaryVars, listVars, attachVars,
      toolVars, fulltextVars, configVars, connVars, formVars>>

NextUpdate ==
    \/ UpdateItemCall /\ UNCHANGED updateFrame
    \/ ItemGetReturns /\ UNCHANGED updateFrame
    \/ ItemGetThrows /\ UNCHANGED updateFrame
    \/ PatchResponds /\ UNCHANGED updateFrame

SpecUpdate ==
    InitUpdate /\ [][NextUpdate]_vars

-----------------------------------------------------------------------------
(* getItemFulltext *)

\* the keys of the children, by their place in the listing
ChildKeys ==
    <<"CHILD001", "CHILD002", "CHILD003", "CHILD004">>

\* the kinds of child a listing holds: an attachment with a content type,
\* an attachment without (a linked URL), a note
ChildKinds ==
    {"file", "link", "note"}

\* the row of the child of kind k listed at place i
ChildRow(k, i) ==
    [key |-> ChildKeys[i],
     data |-> CASE k = "file" -> [itemType |-> "attachment", contentType |-> "application/pdf"]
                [] k = "link" -> [itemType |-> "attachment", contentType |-> ""]
                [] OTHER -> [itemType |-> "note"]]

\* childrenResp.raw: at most MaxChildren children
ChildListings ==
    UNION {{[i \in 1..n |-> ChildRow(kinds[i], i)] : kinds \in [1..n -> ChildKinds]} :
              n \in 0..MaxChildren}

\* c.data?.itemType === "attachment" && c.data?.contentType
IsTextAttachment(c) ==
    /\ "data" \in DOMAIN c
    /\ c.data.itemType = "attachment"
    /\ "contentType" \in DOMAIN c.data
    /\ c.data.contentType # ""

\* how a full-text request may end: content, no content, or an exception
FulltextOutcomes ==
    {"content", "empty", "throws"}

\* the text the library extracted
ExtractedText ==
    <<"t", "e", "x", "t">>

\* the object returned when nothing has content
NoFulltext ==
    [item_key |-> "ITEMKEY1", content |-> NULL,
     message |-> "No full-text content available for this item."]

\* AfterAttachment with the loop left on an exception
AfterAttachment_StopsOnThrow(outcome) ==
    IF outcome = "content" THEN "return"
    ELSE IF outcome = "throws" THEN "stop"
    ELSE "continue"

\* the body of the loop: return on content, continue otherwise, an
\* exception included
AfterAttachment(outcome) ==
    IF outcome = "content" THEN "return" ELSE "continue"

\* the full-text requests among the requests made
FulltextRequests ==
    SelectSeq(requests, LAMBDA r : r.op = "fulltext")

\* the call: the item's own full text is requested
GetItemFulltextCall ==
    /\ fulltextPc = "idle"
    /\ fulltextPc' = "own"
    /\ UNCHANGED <<childRows, requests, fulltextResult>>

\* the item's own full text is answered: with content it is returned,
\* otherwise the children are requested
OwnFulltextResponds ==
    /\ fulltextPc = "own"
    /\ \E outcome \in FulltextOutcomes :
          /\ requests' = Append(requests, [op |-> "fulltext", key |-> "ITEMKEY1",
                                           outcome |-> outcome])
          /\ IF outcome = "content"
             THEN /\ fulltextResult' = [item_key |-> "ITEMKEY1", content |-> ExtractedText,
                                        source |-> "fulltext_api"]
                  /\ fulltextPc' = "done"
             ELSE /\ fulltextPc' = "children"
                  /\ UNCHANGED fulltextResult
    /\ UNCHANGED childRows

\* the listing of the children throws: the outer catch returns the error
ChildrenThrows ==
    /\ fulltextPc = "children"
    /\ requests' = Append(requests, [op |-> "children", key |-> "ITEMKEY1",
                                     outcome |-> "throws"])
    /\ fulltextResult' = [error |-> "children failed"]
    /\ fulltextPc' = "done"
    /\ UNCHANGED childRows

\* the children are listed: the attachments with a content type are kept,
\* and with none of them the call returns
ChildrenListed ==
    /\ fulltextPc = "children"
    /\ childRows' \in ChildListings
    /\ requests' = Append(requests, [op |-> "children", key |-> "ITEMKEY1",
                                     outcome |-> "ok"])
    /\ IF SelectSeq(childRows', IsTextAttachment) = <<>>
       THEN /\ fulltextResult' = NoFulltext
            /\ fulltextPc' = "done"
       ELSE /\ fulltextPc' = "attachments"
            /\ UNCHANGED fulltextResult

\* the full text of the next attachment is answered
AttachmentFulltextResponds ==
    /\ fulltextPc = "attachments"
    /\ LET atts == SelectSeq(childRows, IsTextAttachment)
           i == Len(FulltextRequests)
       IN  \E outcome \in FulltextOutcomes :
              /\ requests' = Append(requests, [op |-> "fulltext", key |-> atts[i].key,
                                               outcome |-> outcome])
              /\ CASE AfterAttachment(outcome) = "return" ->
                         /\ fulltextResult' = [item_key |-> "ITEMKEY1",
                                               attachment_key |-> atts[i].key,
                                               content |-> ExtractedText,
                                               source |-> "child_attachment_fulltext"]
                         /\ fulltextPc' = "done"
                   [] AfterAttachment(outcome) = "continue" /\ i < Len(atts) ->
                         UNCHANGED <<fulltextPc, fulltextResult>>
                   [] OTHER ->
                         /\ fulltextResult' = NoFulltext
                         /\ fulltextPc' = "done"
    /\ UNCHANGED childRows

InitFulltext ==
    /\ raw = <<>>
    /\ unwrapResult = Pending
    /\ CreateIdle
    /\ CreatorIdle
    /\ ResolveIdle
    /\ SummaryIdle
    /\ ListIdle
    /\ AttachIdle
    /\ ToolIdle
    /\ UpdateIdle
    /\ FulltextIdle
    /\ ConfigIdle
    /\ ConnIdle
    /\ FormIdle

\* what a call of getItemFulltext leaves alone
fulltextFrame ==
    <<unwrapVars, createVars, creatorVars, resolveVars, summaryVars, listVars,
      attachVars, toolVars, updateVars, configVars, connVars, formVars>>

NextFulltext ==
    \/ GetItemFulltextCall /\ UNCHANGED fulltextFrame
    \/ OwnFulltextResponds /\ UNCHANGED fulltextFrame
    \/ ChildrenThrows /\ UNCHANGED fulltextFrame
    \/ ChildrenListed /\ UNCHANGED fulltextFrame
    \/ AttachmentFulltextResponds /\ UNCHANGED fulltextFrame

SpecFulltext ==
    InitFulltext /\ [][NextFulltext]_vars

-----------------------------------------------------------------------------
(* The setup app: JSON values, and configureClaudeDesktop behind save-config *)

JsonUndefined ==
    [type |-> "undefined"]

JsonNull ==
    [type |-> "null"]

JsonString(s) ==
    [type |-> "string", s |-> s]

JsonNumber(n) ==
    [type |-> "number", n |-> n]

\* an object, its members a function of their names
JsonObject(members) ==
    [type |-> "object", m |-> members]

\* an array, with the properties set on it besides its items
JsonArray(items, props) ==
    [type |-> "array", items |-> items, props |-> props]

NoMembers ==
    [k \in {} |-> JsonNull]

\* the outcome of an expression that throws a TypeError
TypeError ==
    [type |-> "TypeError"]

\* the number a number token of a JSON text denotes
NumberOf(token) ==
    CASE token \in {"1", "1.0"} -> 1
      [] token \in {"0", "0.0"} -> 0

\* the token JSON.stringify writes for a number
TokenOf(n) ==
    CASE n = 1 -> "1"
      [] n = 0 -> "0"

RECURSIVE JsonParse(_)
\* JSON.parse of a JSON text, given as its syntax tree: the number tokens
\* become numbers and an array has no other property than its items
JsonParse(doc) ==
    CASE doc.type = "object" -> JsonObject([k \in DOMAIN doc.m |-> JsonParse(doc.m[k])])
      [] doc.type = "array" ->
            JsonArray([i \in 1..Len(doc.items) |-> JsonParse(doc.items[i])], NoMembers)
      [] doc.type = "number" -> JsonNumber(NumberOf(doc.token))
      [] OTHER -> doc

RECURSIVE JsonStringify(_)
\* JSON.stringify, as the syntax tree of the text written: the properties
\* of an array other than its items are not written
JsonStringify(v) ==
    CASE v.type = "object" -> JsonObject([k \in DOMAIN v.m |-> JsonStringify(v.m[k])])
      [] v.type = "array" ->
            [type |-> "array", items |-> [i \in 1..Len(v.items) |-> JsonStringify(v.items[i])]]
      [] v.type = "number" -> [type |-> "number", token |-> TokenOf(v.n)]
      [] OTHER -> v

\* !v
JsFalsy(v) ==
    \/ v.type \in {"undefined", "null"}
    \/ v = JsonString("")
    \/ v = JsonNumber(0)

\* v[k]: a TypeError on null and undefined, undefined where there is no
\* such property
GetProperty(v, k) ==
    CASE v.type \in {"undefined", "null", "TypeError"} -> TypeError
      [] v.type = "object" -> IF k \in DOMAIN v.m THEN v.m[k] ELSE JsonUndefined
      [] v.type = "array" -> IF k \in DOMAIN v.props THEN v.props[k] ELSE JsonUndefined
      [] OTHER -> JsonUndefined

\* v[k] = x outside strict mode: a TypeError on null and undefined, no
\* effect on a string or a number
SetProperty(v, k, x) ==
    CASE v.type \in {"undefined", "null", "TypeError"} -> TypeError
      [] v.type = "object" -> JsonObject(Assign(v.m, k, x))
      [] v.type = "array" -> JsonArray(v.items, Assign(v.props, k, x))
      [] OTHER -> v

\* the entry written for the server
ServerConfig(apiKey, libraryId) ==
    JsonObject([command |-> JsonString("node"),
                env |-> JsonObject([ZOTERO_API_KEY |-> JsonString(apiKey),
                                    ZOTERO_LIBRARY_ID |-> JsonString(libraryId)])])

\* EnsureMcpServers starting from an empty mcpServers every time
EnsureMcpServers_Resets(config) ==
    SetProperty(config, "mcpServers", JsonObject(NoMembers))

\* if (!config.mcpServers) config.mcpServers = {}
EnsureMcpServers(config) ==
    LET had == GetProperty(config, "mcpServers")
    IN  IF had = TypeError THEN TypeError
        ELSE IF JsFalsy(had) THEN SetProperty(config, "mcpServers", JsonObject(NoMembers))
        ELSE config

\* config.mcpServers["add-to-zotero"] = serverConfig: the object held by
\* config.mcpServers is changed in place
SetServerEntry(config, serverConfig) ==
    LET servers == SetProperty(GetProperty(config, "mcpServers"), "add-to-zotero", serverConfig)
    IN  IF servers = TypeError THEN TypeError
        ELSE IF GetProperty(config, "mcpServers").type \in {"object", "array"}
        THEN SetProperty(config, "mcpServers", servers)
        ELSE config

\* a file of JSON text, compact or indented
JsonFile(layout, doc) ==
    [kind |-> "json", layout |-> layout, doc |-> doc]

\* the faults of the file system during a save
IoFaults ==
    {"none", "settings", "read", "write"}

\* getClaudeConfigPath() is null
UnsupportedPlatform ==
    platform \notin {"darwin", "win32", "linux"}

\* configureClaudeDesktop on the config file: the file it leaves and the
\* object it returns
ConfigureClaudeDesktop(file, apiKey, libraryId, fault) ==
    IF UnsupportedPlatform
    THEN [file |-> file, result |-> Failure("Unsupported platform.")]
    ELSE IF fault = "read" THEN [file |-> file, result |-> Failure("read failed")]
    ELSE IF file.kind = "garbage" THEN [file |-> file, result |-> Failure("Unexpected token")]
    ELSE
      LET config == IF file.kind = "absent" THEN JsonObject(NoMembers) ELSE JsonParse(file.doc)
          written == SetServerEntry(EnsureMcpServers(config), ServerConfig(apiKey, libraryId))
      IN  IF written = TypeError
          THEN [file |-> file, result |-> Failure("Cannot read properties")]
          ELSE IF fault = "write" THEN [file |-> file, result |-> Failure("write failed")]
          ELSE [file |-> JsonFile("indented", JsonStringify(written)),
                result |-> [status |-> "returned", success |-> TRUE]]

\* the entries other servers may have, and an older entry of this one
OtherServer ==
    JsonObject([command |-> JsonString("npx")])

\* what mcpServers holds in an existing file
McpServersDocs ==
    {JsonObject([k \in S |-> IF k = "add-to-zotero" THEN ServerConfig("old", "9")
                              ELSE OtherServer]) :
        S \in SUBSET {"filesystem", "add-to-zotero"}}
    \cup {JsonNull, JsonString("none"), [type |-> "array", items |-> <<>>]}

\* the JSON texts of an existing file: an object with or without a theme,
\* a scale and mcpServers, or a text that is no object
ConfigDocs ==
    {JsonObject([k \in S |-> full[k]]) :
        full \in [theme : {JsonString("dark")},
                  scale : {[type |-> "number", token |-> t] : t \in {"1", "1.0"}},
                  mcpServers : McpServersDocs],
        S \in SUBSET {"theme", "scale", "mcpServers"}}
    \cup {JsonNull, JsonString("text"), [type |-> "array", items |-> <<>>]}

\* the config file before the first save: none, JSON text, or text that
\* does not parse
ConfigFiles ==
    {[kind |-> "absent"], [kind |-> "garbage"]}
    \cup {JsonFile(layout, doc) : layout \in {"compact", "indented"}, doc \in ConfigDocs}

InitConfig ==
    /\ raw = <<>>
    /\ unwrapResult = Pending
    /\ CreateIdle
    /\ CreatorIdle
    /\ ResolveIdle
    /\ SummaryIdle
    /\ ListIdle
    /\ AttachIdle
    /\ ToolIdle
    /\ UpdateIdle
    /\ FulltextIdle
    /\ platform \in {"darwin", "aix"}
    /\ settingsFile = [kind |-> "absent"]
    /\ configFile \in ConfigFiles
    /\ saves = 0
    /\ saveResult = NoResult
    /\ ConnIdle
    /\ FormIdle

\* the handler of save-config: the settings are written, then the Claude
\* Desktop config
SaveConfig ==
    /\ saves < MaxSaves
    /\ \E apiKey \in {"key1", "key2"}, libraryId \in {"1"}, fault \in IoFaults :
          IF fault = "settings"
          THEN /\ saveResult' = Failure("settings write failed")
               /\ UNCHANGED <<settingsFile, configFile>>
          ELSE LET done == ConfigureClaudeDesktop(configFile, apiKey, libraryId, fault)
               IN  /\ settingsFile' = [kind |-> "json", apiKey |-> apiKey,
                                       libraryId |-> libraryId]
                   /\ configFile' = done.file
                   /\ saveResult' = done.result
    /\ saves' = saves + 1
    /\ UNCHANGED platform

\* what the setup app leaves alone
configFrame ==
    <<unwrapVars, createVars, creatorVars, resolveVars, summaryVars, listVars,
      attachVars, toolVars, updateVars, fulltextVars, connVars, formVars>>

NextConfig ==
    SaveConfig /\ UNCHANGED configFrame

SpecConfig ==
    InitConfig /\ [][NextConfig]_vars

-----------------------------------------------------------------------------
(* The setup app: testZoteroConnection *)

\* the API keys the form may send: any text that is not blank, here a key
\* and a key pasted with a character outside Latin-1 (an ellipsis)
ApiKeys ==
    {"P9NiFoyLeZu2bZNvvuQPDWsd", "wrongkey", "P9NiFoyLeZu2-ellipsis"}

\* the library ids the form lets through: digits
LibraryIds ==
    {"123", "99999999"}

\* the header value holds a character that http's header check refuses,
\* so that https.request throws while the request is built
InvalidHeaderValue(apiKey) ==
    apiKey = "P9NiFoyLeZu2-ellipsis"

\* the status codes of a response
StatusCodes ==
    {200, 403, 404, 500}

\* the object the end of a response resolves with
ResponseOutcome(statusCode) ==
    CASE statusCode = 200 -> [success |-> TRUE]
      [] statusCode = 403 ->
            [success |-> FALSE, error |-> "Invalid API key or insufficient permissions."]
      [] statusCode = 404 -> [success |-> FALSE, error |-> "Library ID not found."]
      [] OTHER -> [success |-> FALSE, error |-> "Zotero API returned status"]

\* resolve(value): the first call settles the promise, a later one has no
\* effect
Resolve(value) ==
    IF settled.state = "pending" THEN [state |-> "resolved", value |-> value]
    ELSE settled

\* the call: the promise is created and its executor builds the request;
\* an exception of https.request rejects the promise
TestZoteroConnectionCall ==
    /\ settled.state = "none"
    /\ connArgs' \in [apiKey : ApiKeys, libraryId : LibraryIds]
    /\ IF InvalidHeaderValue(connArgs'.apiKey)
       THEN /\ settled' = [state |-> "rejected", value |-> [error |-> "ERR_INVALID_CHAR"]]
            /\ request' = "none"
       ELSE /\ settled' = [state |-> "pending"]
            /\ request' = "sent"
    /\ UNCHANGED events

\* a chunk of the response body arrives: res.on("data")
ResponseData ==
    /\ request = "sent"
    /\ Len(events) < MaxChunks
    /\ events' = Append(events, [type |-> "data"])
    /\ UNCHANGED <<connArgs, request, settled>>

\* the response has ended: res.on("end")
ResponseEnds ==
    /\ request = "sent"
    /\ \E statusCode \in StatusCodes :
          /\ events' = Append(events, [type |-> "end", statusCode |-> statusCode])
          /\ settled' = Resolve(ResponseOutcome(statusCode))
    /\ request' = "answered"
    /\ UNCHANGED connArgs

\* req.on("error"): the connection failed, or the request was destroyed
RequestErrors ==
    /\ request \in {"sent", "destroyed"}
    /\ events' = Append(events, [type |-> "error"])
    /\ settled' = Resolve([success |-> FALSE, error |-> "Connection failed"])
    /\ request' = "failed"
    /\ UNCHANGED connArgs

\* the 10 s timeout of the socket fires: the request is destroyed, then
\* the promise resolved
TimeoutFires ==
    /\ request \in {"sent", "answered"}
    /\ [type |-> "timeout"] \notin Range(events)
    /\ events' = Append(events, [type |-> "timeout"])
    /\ settled' = Resolve([success |-> FALSE, error |-> "Connection timed out."])
    /\ request' = IF request = "sent" THEN "destroyed" ELSE request
    /\ UNCHANGED connArgs

InitConnection ==
    /\ raw = <<>>
    /\ unwrapResult = Pending
    /\ CreateIdle
    /\ CreatorIdle
    /\ ResolveIdle
    /\ SummaryIdle
    /\ ListIdle
    /\ AttachIdle
    /\ ToolIdle
    /\ UpdateIdle
    /\ FulltextIdle
    /\ ConfigIdle
    /\ ConnIdle
    /\ FormIdle

\* what a call of testZoteroConnection leaves alone
connFrame ==
    <<unwrapVars, createVars, creatorVars, resolveVars, summaryVars, listVars,
      attachVars, toolVars, updateVars, fulltextVars, configVars, formVars>>

NextConnection ==
    \/ TestZoteroConnectionCall /\ UNCHANGED connFrame
    \/ ResponseData /\ UNCHANGED connFrame
    \/ ResponseEnds /\ UNCHANGED connFrame
    \/ RequestErrors /\ UNCHANGED connFrame
    \/ TimeoutFires /\ UNCHANGED connFrame

SpecConnection ==
    InitConnection /\ [][NextConnection]_vars

-----------------------------------------------------------------------------
(* The setup app: the form of the renderer *)

\* the requests of one kind the model lets be outstanding together
MaxInFlight == 2

\* the texts the user may leave in the library id field
LibraryIdTexts ==
    {<<>>, <<"7">>, <<"7", "x">>, <<" ", "7">>}

\* the texts the user may leave in the API key field
ApiKeyTexts ==
    {<<>>, <<"k">>, <<"k", "2">>}

\* what get-status answers: no stored configuration, or a stored one
StatusResults ==
    {[hasExistingConfig |-> FALSE],
     [hasExistingConfig |-> TRUE, libraryId |-> <<"7">>, apiKey |-> <<"k">>]}

\* /^\d+$/.test(s)
AllDigits(s) ==
    s # <<>> /\ \A i \in DOMAIN s : s[i] \in Digits

\* isFormValid over the two field texts
IsFormValid(libraryId, apiKey) ==
    /\ Trim(libraryId) # <<>> /\ AllDigits(Trim(libraryId))
    /\ Len(Trim(apiKey)) > 0

\* init once get-status has answered: the stored values are put in the
\* fields, then updateButtons
InitResumes ==
    /\ statusPending
    /\ \E status \in StatusResults :
          /\ libraryIdValue' =
                IF status.hasExistingConfig THEN status.libraryId ELSE libraryIdValue
          /\ apiKeyValue' =
                IF status.hasExistingConfig THEN status.apiKey ELSE apiKeyValue
    /\ btnTestDisabled' = ~IsFormValid(libraryIdValue', apiKeyValue')
    /\ btnSaveDisabled' = ~IsFormValid(libraryIdValue', apiKeyValue')
    /\ statusPending' = FALSE
    /\ UNCHANGED <<testsInFlight, savesInFlight, formShown>>

\* an input event of the library id field: validateLibraryId, then
\* updateButtons
LibraryIdInput ==
    /\ formShown
    /\ libraryIdValue' \in LibraryIdTexts \ {libraryIdValue}
    /\ btnTestDisabled' = ~IsFormValid(libraryIdValue', apiKeyValue)
    /\ btnSaveDisabled' = ~IsFormValid(libraryIdValue', apiKeyValue)
    /\ UNCHANGED <<apiKeyValue, testsInFlight, savesInFlight, formShown, statusPending>>

\* an input event of the API key field: validateApiKey, then updateButtons
ApiKeyInput ==
    /\ formShown
    /\ apiKeyValue' \in ApiKeyTexts \ {apiKeyValue}
    /\ btnTestDisabled' = ~IsFormValid(libraryIdValue, apiKeyValue')
    /\ btnSaveDisabled' = ~IsFormValid(libraryIdValue, apiKeyValue')
    /\ UNCHANGED <<libraryIdValue, testsInFlight, savesInFlight, formShown, statusPending>>

\* a click of btnTest, which a disabled button does not receive: up to the
\* await of window.api.testConnection
TestClick ==
    /\ formShown
    /\ ~btnTestDisabled
    /\ testsInFlight < MaxInFlight
    /\ IF IsFormValid(libraryIdValue, apiKeyValue)
       THEN /\ btnTestDisabled' = TRUE
            /\ testsInFlight' = testsInFlight + 1
       ELSE UNCHANGED <<btnTestDisabled, testsInFlight>>
    /\ UNCHANGED <<libraryIdValue, apiKeyValue, btnSaveDisabled, savesInFlight,
                   formShown, statusPending>>

\* the click handler of btnTest after the await: the button is reset
TestResumes ==
    /\ testsInFlight > 0
    /\ testsInFlight' = testsInFlight - 1
    /\ btnTestDisabled' = ~IsFormValid(libraryIdValue, apiKeyValue)
    /\ UNCHANGED <<libraryIdValue, apiKeyValue, btnSaveDisabled, savesInFlight,
                   formShown, statusPending>>

\* the promise of window.api.testConnection is rejected: the await throws
\* and the rest of the handler does not run
TestRejects ==
    /\ testsInFlight > 0
    /\ testsInFlight' = testsInFlight - 1
    /\ UNCHANGED <<libraryIdValue, apiKeyValue, btnTestDisabled, btnSaveDisabled,
                   savesInFlight, formShown, statusPending>>

\* a click of btnSave: up to the await of window.api.saveConfig
SaveClick ==
    /\ formShown
    /\ ~btnSaveDisabled
    /\ savesInFlight < MaxInFlight
    /\ IF IsFormValid(libraryIdValue, apiKeyValue)
       THEN /\ btnSaveDisabled' = TRUE
            /\ savesInFlight' = savesInFlight + 1
       ELSE UNCHANGED <<btnSaveDisabled, savesInFlight>>
    /\ UNCHANGED <<libraryIdValue, apiKeyValue, btnTestDisabled, testsInFlight,
                   formShown, statusPending>>

\* the click handler of btnSave after the await: the button is reset and,
\* when the save succeeded, showSuccess hides the form
SaveResumes ==
    /\ savesInFlight > 0
    /\ savesInFlight' = savesInFlight - 1
    /\ btnSaveDisabled' = ~IsFormValid(libraryIdValue, apiKeyValue)
    /\ \E success \in BOOLEAN : formShown' = IF success THEN FALSE ELSE formShown
    /\ UNCHANGED <<libraryIdValue, apiKeyValue, btnTestDisabled, testsInFlight,
                   statusPending>>

\* a click of btnEdit in the success view: the form is shown again
EditClick ==
    /\ ~formShown
    /\ formShown' = TRUE
    /\ UNCHANGED <<libraryIdValue, apiKeyValue, btnTestDisabled, btnSaveDisabled,
                   testsInFlight, savesInFlight, statusPending>>

\* the page as loaded: empty fields, init awaiting get-status, and the
\* buttons as the markup leaves them
InitForm ==
    /\ raw = <<>>
    /\ unwrapResult = Pending
    /\ CreateIdle
    /\ CreatorIdle
    /\ ResolveIdle
    /\ SummaryIdle
    /\ ListIdle
    /\ AttachIdle
    /\ ToolIdle
    /\ UpdateIdle
    /\ FulltextIdle
    /\ ConfigIdle
    /\ ConnIdle
    /\ libraryIdValue = <<>>
    /\ apiKeyValue = <<>>
    /\ btnTestDisabled \in BOOLEAN
    /\ btnSaveDisabled \in BOOLEAN
    /\ testsInFlight = 0
    /\ savesInFlight = 0
    /\ formShown = TRUE
    /\ statusPending = TRUE

\* what the form leaves alone
formFrame ==
    <<unwrapVars, createVars, creatorVars, resolveVars, summaryVars, listVars,
      attachVars, toolVars, updateVars, fulltextVars, configVars, connVars>>

NextForm ==
    \/ InitResumes /\ UNCHANGED formFrame
    \/ LibraryIdInput /\ UNCHANGED formFrame
    \/ ApiKeyInput /\ UNCHANGED formFrame
    \/ TestClick /\ UNCHANGED formFrame
    \/ TestResumes /\ UNCHANGED formFrame
    \/ TestRejects /\ UNCHANGED formFrame
    \/ SaveClick /\ UNCHANGED formFrame
    \/ SaveResumes /\ UNCHANGED formFrame
    \/ EditClick /\ UNCHANGED formFrame

SpecForm ==
    InitForm /\ [][NextForm]_vars

-----------------------------------------------------------------------------
(* The calls of unwrapUrl *)

InitUnwrap ==
    /\ \E o \in Origins, p \in Paths, q \in Queries : raw = o \o p \o q
    /\ unwrapResult = Pending
    /\ CreateIdle
    /\ CreatorIdle
    /\ ResolveIdle
    /\ SummaryIdle
    /\ ListIdle
    /\ AttachIdle
    /\ ToolIdle
    /\ UpdateIdle
    /\ FulltextIdle
    /\ ConfigIdle
    /\ ConnIdle
    /\ FormIdle

\* one call of unwrapUrl(raw), from entry to return or throw
UnwrapUrlCall ==
    /\ unwrapResult = Pending
    /\ unwrapResult' = UnwrapUrl(raw)
    /\ UNCHANGED raw
    /\ UNCHANGED createVars

\* what a call of unwrapUrl leaves alone, besides createItem's variables
unwrapFrame ==
    <<creatorVars, resolveVars, summaryVars, listVars, attachVars, toolVars,
      updateVars, fulltextVars, configVars, connVars, formVars>>

NextUnwrap ==
    UnwrapUrlCall /\ UNCHANGED unwrapFrame

SpecUnwrap ==
    InitUnwrap /\ [][NextUnwrap]_vars

-----------------------------------------------------------------------------
(* The calls of unwrapUrl on paths that match no wrapper pattern *)

SegSearch ==
    <<"s","e","a","r","c","h">>

SegV1 ==
    <<"v","1">>

RECURSIVE PlainPathsOf(_)
\* the paths of exactly n segments, empty or not, each after a slash
PlainPathsOf(n) ==
    IF n = 0 THEN {<<>>}
    ELSE {p \o <<"/">> \o seg : p \in PlainPathsOf(n - 1), seg \in {<<>>, SegSearch, SegV1}}

PlainPaths ==
    UNION {PlainPathsOf(n) : n \in 0..MaxPlainSegs}

\* a URL of a plain site, its url parameter holding an absolute URL,
\* encoded or not, or a relative one
InitFallback ==
    /\ \E p \in PlainPaths, v \in {ValEncodedAbs, ValPlainAbs, ValRelative} :
          raw = PlainOrigin \o p \o <<"?">> \o P_url \o <<"=">> \o v
    /\ unwrapResult = Pending
    /\ CreateIdle
    /\ CreatorIdle
    /\ ResolveIdle
    /\ SummaryIdle
    /\ ListIdle
    /\ AttachIdle
    /\ ToolIdle
    /\ UpdateIdle
    /\ FulltextIdle
    /\ ConfigIdle
    /\ ConnIdle
    /\ FormIdle

SpecFallback ==
    InitFallback /\ [][NextUnwrap]_vars

-----------------------------------------------------------------------------
(* The calls of the authors.map callback of createItem *)

\* the tokens of "Jane Q. Public" and of "World Health Organization"
NameTokens ==
    {<<"J","a","n","e">>, <<"Q",".">>, <<"P","u","b","l","i","c">>,
     <<"W","o","r","l","d">>, <<"H","e","a","l","t","h">>,
     <<"O","r","g","a","n","i","z","a","t","i","o","n">>}

\* the whitespace between two tokens: one space, or a space and a tab
Separators ==
    {<<" ">>, <<" ", "\t">>}

\* the whitespace around a name: none, or one space
Paddings ==
    {<<>>, <<" ">>}

RECURSIVE NamesOf(_, _)
\* the names of exactly n tokens, separated by sep
NamesOf(n, sep) ==
    IF n = 0 THEN {<<>>}
    ELSE IF n = 1 THEN NameTokens
    ELSE {s \o sep \o t : s \in NamesOf(n - 1, sep), t \in NameTokens}

\* the author names a caller may pass
AuthorNames ==
    {lead \o s \o trail :
        lead \in Paddings, trail \in Paddings,
        s \in UNION {NamesOf(n, sep) : n \in 0..MaxTokens, sep \in Separators}}

InitCreator ==
    /\ authorName \in AuthorNames
    /\ creator = NoCreator
    /\ raw = <<>>
    /\ unwrapResult = Pending
    /\ CreateIdle
    /\ ResolveIdle
    /\ SummaryIdle
    /\ ListIdle
    /\ AttachIdle
    /\ ToolIdle
    /\ UpdateIdle
    /\ FulltextIdle
    /\ ConfigIdle
    /\ ConnIdle
    /\ FormIdle

\* one call of the callback on authorName
AuthorToCreatorCall ==
    /\ creator = NoCreator
    /\ creator' = AuthorToCreator(authorName)
    /\ UNCHANGED authorName

\* what a call of the callback leaves alone
creatorFrame ==
    <<unwrapVars, createVars, resolveVars, summaryVars, listVars, attachVars,
      toolVars, updateVars, fulltextVars, configVars, connVars, formVars>>

NextCreator ==
    AuthorToCreatorCall /\ UNCHANGED creatorFrame

SpecCreator ==
    InitCreator /\ [][NextCreator]_vars

-----------------------------------------------------------------------------
(* The calls of resolveItemType *)

\* the item types a caller may name: every alias of the table in lower
\* case, capitalised and in upper case, every canonical type, the names of
\* the properties every object has, and names the table does not know
SimpleNames ==
    UNION {{ITEM_TYPE_MAP[i][1],
            <<Upper(ITEM_TYPE_MAP[i][1][1])>> \o Tail(ITEM_TYPE_MAP[i][1]),
            ToUpperCase(ITEM_TYPE_MAP[i][1]),
            ITEM_TYPE_MAP[i][2],
            ToUpperCase(ITEM_TYPE_MAP[i][2])} : i \in DOMAIN ITEM_TYPE_MAP}
    \cup UNION {{OBJECT_PROTOTYPE[i][1], ToUpperCase(OBJECT_PROTOTYPE[i][1])} :
                i \in DOMAIN OBJECT_PROTOTYPE}
    \cup {<<"u","n","k","n","o","w","n","A","l","i","a","s">>, <<"a","r","t","i","c","l","e","s">>, <<>>}

InitResolve ==
    /\ simple \in SimpleNames
    /\ zoteroType = NoType
    /\ zoteroTypeAgain = NoType
    /\ raw = <<>>
    /\ unwrapResult = Pending
    /\ CreateIdle
    /\ CreatorIdle
    /\ SummaryIdle
    /\ ListIdle
    /\ AttachIdle
    /\ ToolIdle
    /\ UpdateIdle
    /\ FulltextIdle
    /\ ConfigIdle
    /\ ConnIdle
    /\ FormIdle

\* one call of resolveItemType(simple)
ResolveItemTypeCall ==
    /\ zoteroType = NoType
    /\ zoteroType' = ResolveItemType(simple)
    /\ UNCHANGED <<simple, zoteroTypeAgain>>

\* resolveItemType(v) for the value v the first call returned: a value
\* that is no string has no toLowerCase method, and the call throws
ResolveItemTypeOfValue(v) ==
    IF v.type = "string" THEN ResolveItemType(v.value)
    ELSE [type |-> "TypeError", value |-> <<>>]

\* one call of resolveItemType on the value of the first call
ResolveItemTypeAgainCall ==
    /\ zoteroType # NoType
    /\ zoteroTypeAgain = NoType
    /\ zoteroTypeAgain' = ResolveItemTypeOfValue(zoteroType)
    /\ UNCHANGED <<simple, zoteroType>>

\* what a call of resolveItemType leaves alone
resolveFrame ==
    <<unwrapVars, createVars, creatorVars, summaryVars, listVars, attachVars,
      toolVars, updateVars, fulltextVars, configVars, connVars, formVars>>

NextResolve ==
    \/ ResolveItemTypeCall /\ UNCHANGED resolveFrame
    \/ ResolveItemTypeAgainCall /\ UNCHANGED resolveFrame

SpecResolve ==
    InitResolve /\ [][NextResolve]_vars

-----------------------------------------------------------------------------
(* The calls of formatItemSummary *)

\* the creators the library may hold: single-field and two-field ones,
\* with empty, padded and missing parts
CreatorEntries ==
    {[creatorType |-> "author", name |-> <<"W","H","O">>],
     [creatorType |-> "author", name |-> <<>>],
     [creatorType |-> "author", firstName |-> <<"J","a","n","e">>,
                                lastName |-> <<"P","u","b","l","i","c">>],
     [creatorType |-> "author", firstName |-> <<>>, lastName |-> <<>>],
     [creatorType |-> "editor", firstName |-> <<"J","a","n","e">>, lastName |-> <<>>],
     [creatorType |-> "editor", lastName |-> <<"P","u","b","l","i","c">>],
     [creatorType |-> "author", firstName |-> <<" ">>, lastName |-> <<"H","a","l"," ">>]}

\* the creator lists of at most MaxCreators entries
CreatorLists ==
    UNION {[1..n -> CreatorEntries] : n \in 0..MaxCreators}

\* the data of a raw item, with or without a creators property
ItemData ==
    {[itemType |-> "journalArticle", title |-> "A Title", date |-> "",
      tags |-> <<[tag |-> "tag1", type |-> "manual"], [string |-> "tag2"]>>]}
    \cup {[itemType |-> "journalArticle", title |-> "A Title", date |-> "",
           tags |-> <<[tag |-> "tag1", type |-> "manual"], [string |-> "tag2"]>>,
           creators |-> l] : l \in CreatorLists}

\* the raw items: the data under a data property, or the data itself
RawItems ==
    {[key |-> "ITEMKEY1", version |-> "v1", data |-> d] : d \in ItemData}
    \cup {[x \in DOMAIN d \cup {"key"} |-> IF x = "key" THEN "ITEMKEY1" ELSE d[x]] :
            d \in ItemData}

InitSummary ==
    /\ item \in RawItems
    /\ summary = NoSummary
    /\ raw = <<>>
    /\ unwrapResult = Pending
    /\ CreateIdle
    /\ CreatorIdle
    /\ ResolveIdle
    /\ ListIdle
    /\ AttachIdle
    /\ ToolIdle
    /\ UpdateIdle
    /\ FulltextIdle
    /\ ConfigIdle
    /\ ConnIdle
    /\ FormIdle

\* one call of formatItemSummary(item)
FormatItemSummaryCall ==
    /\ summary = NoSummary
    /\ summary' = FormatItemSummary(item)
    /\ UNCHANGED item

\* what a call of formatItemSummary leaves alone
summaryFrame ==
    <<unwrapVars, createVars, creatorVars, resolveVars, listVars, attachVars,
      toolVars, updateVars, fulltextVars, configVars, connVars, formVars>>

NextSummary ==
    FormatItemSummaryCall /\ UNCHANGED summaryFrame

SpecSummary ==
    InitSummary /\ [][NextSummary]_vars

-----------------------------------------------------------------------------
(* The calls of searchItems, getCollectionItems and getRecentItems *)

ListOps ==
    {"searchItems", "getCollectionItems", "getRecentItems"}

\* the rows of a response: a top-level item, an attachment or a note, its
\* data under a data property or the row being the data itself
ResponseRows ==
    UNION {{[key |-> "ROWKEY01", data |-> [itemType |-> t, title |-> "A Title"]],
            [key |-> "ROWKEY01", itemType |-> t, title |-> "A Title"]} :
            t \in {"journalArticle", "attachment", "note"}}

InitListing ==
    /\ ListIdle
    /\ raw = <<>>
    /\ unwrapResult = Pending
    /\ CreateIdle
    /\ CreatorIdle
    /\ ResolveIdle
    /\ SummaryIdle
    /\ AttachIdle
    /\ ToolIdle
    /\ UpdateIdle
    /\ FulltextIdle
    /\ ConfigIdle
    /\ ConnIdle
    /\ FormIdle

\* the call: the request is sent to the library
ListCall ==
    /\ listOp = "none"
    /\ listOp' \in ListOps
    /\ UNCHANGED <<rows, listing>>

\* the library answers with rows, with or without a Total-Results header;
\* the rows are filtered and summarised (the paging parameters echoed by
\* searchItems and getCollectionItems are left out)
ListReturns ==
    /\ listOp \in ListOps
    /\ listing.status = "pending"
    /\ \E n \in 0..MaxRows : rows' \in [1..n -> ResponseRows]
    /\ \E header \in BOOLEAN :
          listing' = IF listOp = "getRecentItems"
                     THEN [status |-> "returned", items |-> ListedItems(rows')]
                     ELSE [status |-> "returned", items |-> ListedItems(rows'),
                           totalResults |-> IF header THEN Len(rows')
                                            ELSE Len(ListedItems(rows'))]
    /\ UNCHANGED listOp

\* the request throws
ListThrows ==
    /\ listOp \in ListOps
    /\ listing.status = "pending"
    /\ listing' = [status |-> "returned", error |-> "request failed"]
    /\ UNCHANGED <<listOp, rows>>

\* what a call of a listing function leaves alone
listFrame ==
    <<unwrapVars, createVars, creatorVars, resolveVars, summaryVars, attachVars,
      toolVars, updateVars, fulltextVars, configVars, connVars, formVars>>

NextListing ==
    \/ ListCall /\ UNCHANGED listFrame
    \/ ListReturns /\ UNCHANGED listFrame
    \/ ListThrows /\ UNCHANGED listFrame

SpecListing ==
    InitListing /\ [][NextListing]_vars

-----------------------------------------------------------------------------
(* What the specification says of unwrap *)

Done ==
    unwrapResult.kind # "pending"

\* the value a query parameter holds, URL-decoded once (null when absent)
ParamValue(rawUrl, name) ==
    SearchParamsGet(ParseURL(rawUrl).searchParams, name)

\* the candidate names whose value is an absolute http(s) URL, as indexes
\* of the priority list
AbsoluteCandidates(rawUrl) ==
    {i \in 1..Len(URL_PARAM_NAMES) :
        LET v == ParamValue(rawUrl, URL_PARAM_NAMES[i])
        IN  ~Falsy(v) /\ (StartsWith(v, HTTP_PREFIX) \/ StartsWith(v, HTTPS_PREFIX))}

\* the value of the earliest candidate name holding an absolute URL
FirstAbsoluteValue(rawUrl) ==
    LET I == AbsoluteCandidates(rawUrl)
    IN  ParamValue(rawUrl, URL_PARAM_NAMES[CHOOSE i \in I : \A j \in I : i <= j])

RECURSIVE StripAllSlashes(_)
\* a path without any of its leading and trailing slashes
StripAllSlashes(p) ==
    IF p # <<>> /\ p[1] = "/" THEN StripAllSlashes(From(p, 2))
    ELSE IF p # <<>> /\ p[Len(p)] = "/" THEN StripAllSlashes(SubSeq(p, 1, Len(p) - 1))
    ELSE p

\* the number of path segments once leading and trailing empty segments are
\* stripped
SegmentCount(pathname) ==
    IF StripAllSlashes(pathname) = <<>> THEN 0
    ELSE Len(Split(StripAllSlashes(pathname), "/"))

\* the rendering-service URL of the specification's example
RenderingServiceUrl ==
    RendererOrigin \o <<"/">> \o SegRender \o <<"?">> \o P_url \o <<"=">> \o ValEncodedAbs

\* the same service with a path that matches a wrapper pattern
RenderingServiceUrlWrapperPath ==
    RendererOrigin \o <<"/">> \o SegProxyPhp \o <<"?">> \o P_url \o <<"=">> \o ValEncodedAbs

\* the same service with a two-segment path
RenderingServiceUrlTwoSegments ==
    RendererOrigin \o <<"/">> \o SegRender \o <<"/">> \o SegRender
        \o <<"?">> \o P_url \o <<"=">> \o ValEncodedAbs

\* C1 as stated: unwrap of the rendering-service URL carrying the
\* percent-encoded real document URL in its url parameter returns the real
\* document URL.
C1_RenderingServiceUnwrapped ==
    (Done /\ raw = RenderingServiceUrl) => unwrapResult = Return(RealDocUrl)

\* C1: the rendering-service URL of the example, whose path /render matches
\* no wrapper pattern and has one segment, is returned unchanged, the
\* renderer being named in its host only; the real document URL is returned
\* when the path of the URL matches a wrapper pattern or has two segments.
C1_UnwrappedByPathOnly ==
    Done =>
        /\ raw = RenderingServiceUrl => unwrapResult = Return(raw)
        /\ raw = RenderingServiceUrlWrapperPath => unwrapResult = Return(RealDocUrl)
        /\ raw = RenderingServiceUrlTwoSegments => unwrapResult = Return(RealDocUrl)

\* unwrap has been applied to the rendering-service URL of the example
C1_Witness ==
    /\ Done
    /\ raw = RenderingServiceUrl

\* C2: unwrap never raises: every call returns a string, and when the input
\* does not parse or no candidate parameter holds an absolute URL the
\* string returned is the input.
C2_NeverRaises ==
    Done =>
        /\ unwrapResult.kind = "return"
        /\ (~ParseURL(raw).ok \/ AbsoluteCandidates(raw) = {})
              => unwrapResult.value = raw

\* C3: for a string that does not parse as an absolute URL, unwrap returns
\* the string itself.
C3_InvalidUrlUnchanged ==
    (Done /\ ~ParseURL(raw).ok) => unwrapResult = Return(raw)

\* an unparsable input that carries an absolute URL in its url parameter
\* behind a two-segment path has been returned as it was
C3_Witness ==
    /\ Done
    /\ raw = <<"/">> \o SegRender \o <<"/">> \o SegRender
               \o <<"?">> \o P_url \o <<"=">> \o ValPlainAbs
    /\ unwrapResult = Return(raw)

\* C4: when the path matches a wrapper pattern and a candidate parameter
\* holds a value that decodes to an absolute http(s) URL, unwrap returns
\* that decoded value, whatever the number of path segments.
C4_WrapperUnwrapped ==
    (/\ Done
     /\ ParseURL(raw).ok
     /\ WRAPPER_PATTERNS(ParseURL(raw).pathname)
     /\ AbsoluteCandidates(raw) # {})
        => /\ unwrapResult.kind = "return"
           /\ \E i \in AbsoluteCandidates(raw) :
                 unwrapResult.value = ParamValue(raw, URL_PARAM_NAMES[i])

\* C5: on a path that matches no wrapper pattern, with an absolute http(s)
\* URL in a candidate parameter, unwrap returns the decoded parameter value
\* when the path has at least 2 segments and the input when it has fewer.
C5_SegmentHeuristic ==
    (/\ Done
     /\ ParseURL(raw).ok
     /\ ~WRAPPER_PATTERNS(ParseURL(raw).pathname)
     /\ AbsoluteCandidates(raw) # {})
        => IF SegmentCount(ParseURL(raw).pathname) >= 2
           THEN unwrapResult = Return(FirstAbsoluteValue(raw))
           ELSE unwrapResult = Return(raw)

\* C6: whatever unwrap returns is its input or a string that starts with
\* http:// or https://; a relative parameter value is never returned,
\* wrapper path or not.
C6_NeverReturnsRelative ==
    unwrapResult.kind = "return" =>
        \/ unwrapResult.value = raw
        \/ StartsWith(unwrapResult.value, HTTP_PREFIX)
        \/ StartsWith(unwrapResult.value, HTTPS_PREFIX)

\* a call on a wrapper path whose only candidate parameter holds the
\* relative value /doc.pdf has returned
C6_Witness ==
    /\ raw = PlainOrigin \o <<"/">> \o SegProxyPhp
               \o <<"?">> \o P_source \o <<"=">> \o ValRelative
    /\ unwrapResult = Return(raw)

\* C7: the candidate names are examined in the order url, source, target,
\* uri, link, src: where the path lets unwrap return a parameter at all,
\* the result is the value of the earliest name holding an absolute URL,
\* wherever it stands in the query string, and an absent, empty or relative
\* parameter is skipped.
C7_FirstNameWins ==
    (/\ Done
     /\ ParseURL(raw).ok
     /\ \/ WRAPPER_PATTERNS(ParseURL(raw).pathname)
        \/ Len(Segments(ParseURL(raw).pathname)) >= 2)
        => IF AbsoluteCandidates(raw) # {}
           THEN unwrapResult = Return(FirstAbsoluteValue(raw))
           ELSE unwrapResult = Return(raw)

-----------------------------------------------------------------------------
(* What the specification says of the template filler *)

\* the item createItem sent upstream
Sent ==
    posted[1]

\* the parameter each gated template field is filled from
GatedFields ==
    {"url", "abstractNote", "extra", "volume", "issue", "pages", "DOI", "creators"}

\* the caller supplied a non-empty value for the template field f
SuppliedFor(f) ==
    CASE f = "abstractNote" -> Truthy(args.abstract)
      [] f = "DOI" -> Truthy(args.doi)
      [] f = "creators" -> Len(args.authors) > 0
      [] OTHER -> Truthy(args[f])

\* C8 as stated: every key of the item sent upstream was a key of the
\* template fetched for the item type, whatever metadata the caller supplied.
C8_NoInventedField ==
    posted # <<>> => DOMAIN Sent \subseteq DOMAIN fetched

\* the fields createItem assigns without consulting the template
UngatedFields ==
    {"title", "date", "tags", "collections"}

\* C8: every key of the item sent upstream was a key of the fetched
\* template or is one of title, date, tags and collections, which are
\* assigned without consulting the template: title always, the other three
\* when the caller supplied them.
C8_OnlyUngatedFieldsInvented ==
    posted # <<>> =>
        /\ DOMAIN Sent \subseteq DOMAIN fetched \cup UngatedFields
        /\ "title" \in DOMAIN Sent
        /\ "date" \in DOMAIN Sent \ DOMAIN fetched => Truthy(args.date)
        /\ "tags" \in DOMAIN Sent \ DOMAIN fetched => Len(args.tags) > 0
        /\ "collections" \in DOMAIN Sent \ DOMAIN fetched => Truthy(args.collectionId)

\* a template that declares neither title nor url has been filled for a
\* caller who supplied a url: the item sent has a title and no url
C8_Witness ==
    /\ posted # <<>>
    /\ Truthy(args.url)
    /\ DOMAIN fetched \cap {"title", "url"} = {}
    /\ "title" \in DOMAIN Sent
    /\ "url" \notin DOMAIN Sent

\* C9: each of url, abstractNote, extra, volume, issue, pages, DOI and
\* creators is written only if the caller supplied a non-empty value and the
\* template has the key; a template lacking the key lacks it after filling.
C9_GatedFields ==
    posted # <<>> =>
        \A f \in GatedFields :
            /\ f \notin DOMAIN fetched => f \notin DOMAIN Sent
            /\ (f \in DOMAIN fetched /\ Sent[f] # fetched[f]) => SuppliedFor(f)

\* a template without DOI has been filled for a caller who supplied doi
C9_Witness ==
    /\ posted # <<>>
    /\ Truthy(args.doi)
    /\ "DOI" \notin DOMAIN fetched
    /\ "DOI" \notin DOMAIN Sent

\* C10: date is assigned only if the caller supplied a date and the template
\* declares date; a template without date has no date key after filling.
C10_DateGated ==
    posted # <<>> =>
        /\ "date" \notin DOMAIN fetched => "date" \notin DOMAIN Sent
        /\ ("date" \in DOMAIN fetched /\ Sent["date"] # fetched["date"]) => Truthy(args.date)

\* C13: when publication is supplied, exactly one of publicationTitle,
\* blogTitle and websiteTitle is set to it: the first, in that order, that
\* the template declares; the other declared ones keep the template's value,
\* and a field the template does not declare is not set.
C13_FirstDeclaredPublicationField ==
    (posted # <<>> /\ Truthy(args.publication)) =>
        LET order == <<"publicationTitle", "blogTitle", "websiteTitle">>
            I == {i \in DOMAIN order : order[i] \in DOMAIN fetched}
        IN  \A i \in DOMAIN order :
                /\ order[i] \in DOMAIN Sent <=> i \in I
                /\ i \in I =>
                      Sent[order[i]] = IF \A j \in I : i <= j THEN args.publication
                                       ELSE fetched[order[i]]

\* a template declaring blogTitle and websiteTitle but not publicationTitle
\* has been filled with a publication: blogTitle holds it, websiteTitle is
\* as the template had it
C13_Witness ==
    /\ posted # <<>>
    /\ Truthy(args.publication)
    /\ DOMAIN fetched \cap PublicationFields = {"blogTitle", "websiteTitle"}
    /\ Sent.blogTitle = args.publication
    /\ Sent.websiteTitle = fetched.websiteTitle

-----------------------------------------------------------------------------
(* What the specification says of author names *)

RECURSIVE SortedSeq(_)
\* the numbers of S in increasing order
SortedSeq(S) ==
    IF S = {} THEN <<>>
    ELSE LET m == CHOOSE x \in S : \A y \in S : x <= y
         IN  <<m>> \o SortedSeq(S \ {m})

\* the whitespace-separated tokens of s: its maximal runs of characters
\* that are not whitespace, in order
TokensOf(s) ==
    LET starts == SortedSeq({i \in 1..Len(s) :
                     s[i] \notin Whitespace /\ (i = 1 \/ s[i - 1] \in Whitespace)})
        ends == SortedSeq({i \in 1..Len(s) :
                     s[i] \notin Whitespace /\ (i = Len(s) \/ s[i + 1] \in Whitespace)})
    IN  [k \in 1..Len(starts) |-> SubSeq(s, starts[k], ends[k])]

AuthorWorldHealthOrganization ==
    <<"W","o","r","l","d"," ","H","e","a","l","t","h"," ",
      "O","r","g","a","n","i","z","a","t","i","o","n">>

\* C11: a name of 2 or more whitespace-separated tokens becomes the author
\* whose firstName is all tokens but the last joined by single spaces and
\* whose lastName is the last token; a name of one token becomes the author
\* whose name is the name as given.
C11_AuthorSplit ==
    creator # NoCreator =>
        LET toks == TokensOf(authorName)
        IN  /\ Len(toks) >= 2 =>
                  creator = [creatorType |-> "author",
                             firstName |-> JoinSpace(SubSeq(toks, 1, Len(toks) - 1)),
                             lastName |-> toks[Len(toks)]]
            /\ Len(toks) = 1 =>
                  creator = [creatorType |-> "author", name |-> authorName]

\* "Jane Q. Public" has become firstName "Jane Q.", lastName "Public"
C11_Witness ==
    /\ authorName = AuthorJane
    /\ creator = [creatorType |-> "author",
                  firstName |-> <<"J","a","n","e"," ","Q",".">>,
                  lastName |-> <<"P","u","b","l","i","c">>]

\* C12: the organization author "World Health Organization" yields a
\* creator whose name field holds the full name, with no firstName and
\* lastName.
C12_OrganizationKeepsName ==
    (creator # NoCreator /\ authorName = AuthorWorldHealthOrganization) =>
        /\ DOMAIN creator = {"creatorType", "name"}
        /\ creator.name = authorName

-----------------------------------------------------------------------------
(* What the specification says of resolveType *)

\* the canonical types of the aliases that equal name case-insensitively
CanonicalTypesOf(name) ==
    {ITEM_TYPE_MAP[i][2] : i \in {j \in DOMAIN ITEM_TYPE_MAP :
                                    ToLowerCase(ITEM_TYPE_MAP[j][1]) = ToLowerCase(name)}}

\* C14: resolveType returns the table's canonical type for every input
\* that equals an alias of the table case-insensitively, and the input
\* string itself, unchanged, for every other input: canonical names and
\* names that are no alias of the table.
C14_AliasOrUnchanged ==
    zoteroType # NoType =>
        IF CanonicalTypesOf(simple) # {}
        THEN zoteroType \in {Str(c) : c \in CanonicalTypesOf(simple)}
        ELSE zoteroType = Str(simple)

-----------------------------------------------------------------------------
(* What the specification says of listings and summaries *)

\* C15: the items returned by search_items, get_collection_items and
\* get_recent_items never contain an entry whose itemType is attachment or
\* note, whatever rows the library returned.
C15_NoAttachmentOrNoteListed ==
    "items" \in DOMAIN listing =>
        \A i \in 1..Len(listing.items) :
            listing.items[i].itemType \notin {"attachment", "note"}

\* the part of a creator a summary shows: name if present, otherwise
\* firstName and lastName joined by a space and trimmed
ShownName(c) ==
    IF "name" \in DOMAIN c THEN c.name
    ELSE Trim((IF "firstName" \in DOMAIN c THEN c.firstName ELSE <<>>) \o <<" ">>
              \o (IF "lastName" \in DOMAIN c THEN c.lastName ELSE <<>>))

\* the creators of the item summarised, whether under data or not
CreatorsOfItem ==
    IF "data" \in DOMAIN item
    THEN (IF "creators" \in DOMAIN item.data THEN item.data.creators ELSE <<>>)
    ELSE (IF "creators" \in DOMAIN item THEN item.creators ELSE <<>>)

\* C16: the creators of a summary are the shown names of the item's
\* creators, the empty ones dropped, joined with "; "; when none survives
\* (no creators, or [{firstName:"", lastName:""}]) the field is null, never
\* the empty string.
C16_CreatorsJoinedOrNull ==
    summary # NoSummary =>
        LET shown == SelectSeq([i \in 1..Len(CreatorsOfItem) |-> ShownName(CreatorsOfItem[i])],
                               LAMBDA x : x # <<>>)
        IN  /\ summary.creators # <<>>
            /\ shown = <<>> => summary.creators = NULL
            /\ shown # <<>> => summary.creators = Join(shown, <<";", " ">>)

\* the item whose creators are [{firstName:"", lastName:""}] has been
\* summarised with creators null
C16_Witness ==
    /\ summary # NoSummary
    /\ CreatorsOfItem = <<[creatorType |-> "author", firstName |-> <<>>, lastName |-> <<>>]>>
    /\ summary.creators = NULL

-----------------------------------------------------------------------------
(* What the specification says of attachments *)

\* C17: whenever createItem has created the item and gone on to attach a
\* PDF or a snapshot, the result it returns contains the item's key, also
\* when the attachment step fails for any reason.
C17_CreatedKeyReported ==
    (pc = "done" /\ attachCaller = "createItem") =>
        /\ "item_key" \in DOMAIN result
        /\ result.item_key = "ITEMKEY1"

\* C19: an attach call issues at most one download request, and once that
\* request has timed out or failed the call has ended with a failure
\* result (success false): the request is not issued again.
C19_NoRetry ==
    /\ downloads <= 1
    /\ download \in DownloadOutcomes \ {"ok"} =>
          /\ attachPc = "done"
          /\ attachResult.status = "returned"
          /\ attachResult.success = FALSE

\* a standalone attach call whose download timed out has returned a failure
C19_Witness ==
    /\ attachCaller = "tool"
    /\ download = "timeout"
    /\ downloads = 1
    /\ attachResult = Failure("timeout")

-----------------------------------------------------------------------------
(* What the specification says of failures *)

\* C18: every failure of a tool operation (missing credentials, network
\* error, upstream rejection, malformed response) is returned to the caller
\* as an object carrying success false and an error message; no tool
\* handler raises an exception.
C18_FailuresReturned ==
    toolResult # NoResult =>
        /\ toolResult.status = "returned"
        /\ upstream # "ok" =>
              /\ "success" \in DOMAIN toolResult.body
              /\ toolResult.body.success = FALSE
              /\ "error" \in DOMAIN toolResult.body

-----------------------------------------------------------------------------
(* What the specification says of update_item *)

\* the names of a list of tag objects
NamesOfTags(tags) ==
    [i \in 1..Len(tags) |-> tags[i].tag]

\* the tags property of a data object, empty when it has none
TagsOfData(d) ==
    IF "tags" \in DOMAIN d THEN d.tags ELSE <<>>

\* the list asked for under k, empty when k is not supplied
ListAsked(k) ==
    IF k \in DOMAIN changes THEN changes[k] ELSE <<>>

\* the index of the first occurrence of x in the list l
FirstIndex(l, x) ==
    CHOOSE i \in 1..Len(l) : l[i] = x /\ \A j \in 1..(i - 1) : l[j] # x

\* x stands before y in the list of the existing tags followed by add_tags
Before(x, y) ==
    LET ex == NamesOfTags(TagsOfData(current))
        both == ex \o ListAsked("add_tags")
    IN  FirstIndex(both, x) < FirstIndex(both, y)

\* C20: when tags is supplied the item's tags become exactly that list,
\* whatever add_tags and remove_tags hold; otherwise, when add_tags or
\* remove_tags is supplied, the new tags are the existing tags in their
\* order followed by the add_tags entries not already present, without any
\* tag named in remove_tags and without duplicate, every existing tag being
\* kept when add_tags is supplied alone; when none of the three is
\* supplied the tags are left as read.
C20_TagSemantics ==
    patched # <<>> =>
        LET out == NamesOfTags(TagsOfData(patched[1]))
            ex == NamesOfTags(TagsOfData(current))
        IN  IF "tags" \in DOMAIN changes THEN out = changes.tags
            ELSE IF DOMAIN changes \cap {"add_tags", "remove_tags"} = {}
            THEN /\ "tags" \in DOMAIN patched[1] <=> "tags" \in DOMAIN current
                 /\ TagsOfData(patched[1]) = TagsOfData(current)
            ELSE /\ Range(out) = (Range(ex) \cup Range(ListAsked("add_tags")))
                                    \ Range(ListAsked("remove_tags"))
                 /\ \A i, j \in 1..Len(out) : out[i] = out[j] => i = j
                 /\ \A i, j \in 1..Len(out) : i < j => Before(out[i], out[j])
                 /\ "remove_tags" \notin DOMAIN changes => SubSeq(out, 1, Len(ex)) = ex

\* an item tagged a has been updated with add_tags [b, c] and remove_tags
\* [b]: its tags are a, c
C20_Witness ==
    /\ patched # <<>>
    /\ DOMAIN changes = {"add_tags", "remove_tags"}
    /\ changes.add_tags = <<"b", "c">>
    /\ changes.remove_tags = <<"b">>
    /\ NamesOfTags(TagsOfData(current)) = <<"a">>
    /\ NamesOfTags(TagsOfData(patched[1])) = <<"a", "c">>

-----------------------------------------------------------------------------
(* What the specification says of credentials *)

\* a credential is unset or empty
Unconfigured ==
    \/ env.ZOTERO_API_KEY \in {UNDEFINED, ""}
    \/ env.ZOTERO_LIBRARY_ID \in {UNDEFINED, ""}

\* C21: a tool that reads or writes the library, called while
\* ZOTERO_API_KEY or ZOTERO_LIBRARY_ID is unset or empty, fails with the
\* error "Zotero not configured" and no request has been made upstream;
\* get_help, prepare_url and get_item_types return their text whatever the
\* credentials are, without any request upstream.
C21_CredentialsGate ==
    toolResult # NoResult =>
        IF tool \in LocalTools
        THEN toolResult.status = "returned" /\ upstream = "none"
        ELSE Unconfigured =>
                /\ toolResult = Raised("Zotero not configured")
                /\ upstream = "none"

\* save_item has failed for want of a library id, the API key being set
C21_Witness ==
    /\ tool = "save_item"
    /\ env.ZOTERO_API_KEY = "key"
    /\ env.ZOTERO_LIBRARY_ID = UNDEFINED
    /\ toolResult = Raised("Zotero not configured")

-----------------------------------------------------------------------------
(* What the specification says of the attachment item and its upload *)

\* C22: when an attach call has created the attachment item in the library
\* and the upload of the file content has then failed, by a rejected
\* response or by a thrown error, the failure result carries the
\* attachment_key of that attachment item.
C22_OrphanReported ==
    (attachPc = "done" /\ attachments # <<>> /\ attachResult.status = "returned"
        /\ attachResult.success = FALSE) =>
        /\ "attachment_key" \in DOMAIN attachResult
        /\ attachResult.attachment_key = attachments[1]

-----------------------------------------------------------------------------
(* What the specification says of the attachment of createItem *)

\* createItem ended without an item: the template was refused, the post
\* threw or answered without an entity
CreationFailed ==
    /\ pc = "done"
    /\ result \in {Failure("Invalid item type"), Failure("post failed"),
                   Failure("Failed to create item")}

\* what C23 says of each call, the pdf_url counting as supplied under the
\* test pdfSupplied
OneAttachmentAfterCreation(pdfSupplied) ==
    /\ Len(attempted) <= 1
    /\ attachCaller = "createItem" =>
          /\ pc \in {"attach", "done"}
          /\ posted # <<>>
          /\ Len(attempted) = 1
    /\ (attachCaller = "createItem" /\ pdfSupplied /\ snapshotUrl # ABSENT) =>
          attempted = <<"pdf">>
    /\ CreationFailed => attempted = <<>> /\ attachPc = "idle"

\* C23: createItem calls an attach function only after the post of the item
\* returned a created entity, and calls at most one: when both pdf_url and
\* snapshot_url are supplied only the PDF attachment is attempted, also
\* when it fails; when the creation fails none is attempted.
C23_PdfOnlyWhenBothSupplied ==
    OneAttachmentAfterCreation(pdfUrl # ABSENT)

\* C23, amended: as above, where pdf_url is supplied and is not the empty
\* string; with an empty pdf_url the snapshot is the one attempted.
C23_PdfOnlyWhenPdfNonEmpty ==
    /\ OneAttachmentAfterCreation(pdfUrl # ABSENT /\ pdfUrl # <<>>)
    /\ (attachCaller = "createItem" /\ pdfUrl = <<>>) => attempted = <<"snapshot">>

\* createItem was given both URLs, its PDF download timed out, and it has
\* returned without attempting the snapshot
C23_Witness ==
    /\ pc = "done"
    /\ attachCaller = "createItem"
    /\ UrlGiven(pdfUrl)
    /\ UrlGiven(snapshotUrl)
    /\ attachResult = Failure("timeout")
    /\ attempted = <<"pdf">>

-----------------------------------------------------------------------------
(* What the specification says of the download before the attachment item *)

\* the requests the attach function has sent to the library: the items
\* posted, less the item createItem posted itself
LibraryRequestsOfAttach ==
    IF attachCaller = "createItem" THEN Len(posted) - 1 ELSE Len(posted)

\* the download gave no usable body: a status that is not ok, a thrown
\* error, an empty body, or a body that could not be read
DownloadUnusable ==
    \/ download \in {"http error", "timeout", "network error"}
    \/ /\ download = "ok"
       /\ attachResult \in {Failure("empty"), Failure("read error")}

\* C25: an attach call sends a request to the library only after its
\* download returned an ok status and a body that is not empty; when the
\* status is not ok, the body is empty or the download throws, the call
\* returns success false and has sent no request to the library.
C25_DownloadBeforeLibrary ==
    attachCaller # "none" =>
        /\ LibraryRequestsOfAttach > 0 =>
              /\ download = "ok"
              /\ attachPc \in {"upload", "done"}
              /\ ~DownloadUnusable
        /\ (attachPc = "done" /\ DownloadUnusable) =>
              /\ attachResult.status = "returned"
              /\ attachResult.success = FALSE
              /\ LibraryRequestsOfAttach = 0
              /\ attachments = <<>>

\* attach_snapshot has downloaded an empty body and returned a failure
\* without a request to the library
C25_Witness ==
    /\ attachCaller = "tool"
    /\ attachKind = "snapshot"
    /\ attachPc = "done"
    /\ download = "ok"
    /\ attachResult = Failure("empty")
    /\ posted = <<>>

-----------------------------------------------------------------------------
(* What the specification says of get_item_fulltext *)

\* the keys of the listed children that are attachments with a content
\* type, in listing order
TextAttachmentKeys ==
    LET I == {i \in 1..Len(childRows) :
                 /\ childRows[i].data.itemType = "attachment"
                 /\ childRows[i].data.contentType # ""}
        at == SortedSeq(I)
    IN  [k \in 1..Len(at) |-> childRows[at[k]].key]

\* the keys the full text was asked of, in order
KeysAsked ==
    [i \in 1..Len(FulltextRequests) |-> FulltextRequests[i].key]

-----------------------------------------------------------------------------
(* What the specification says of the segment count *)

\* C26: the segment count of the fallback heuristic ignores every leading
\* and trailing empty segment: on a path that matches no wrapper pattern
\* and has at most one segment that is not empty, followed by any number
\* of slashes (/search/, /search//), the URL is returned unchanged.
C26_TrailingSlashesIgnored ==
    (/\ Done
     /\ ParseURL(raw).ok
     /\ ~WRAPPER_PATTERNS(ParseURL(raw).pathname)
     /\ AbsoluteCandidates(raw) # {}
     /\ SegmentCount(ParseURL(raw).pathname) <= 1)
        => unwrapResult = Return(raw)

-----------------------------------------------------------------------------
(* What the specification says of the Claude Desktop config *)

\* the members of the object v other than k, none when v is no object
OtherMembers(v, k) ==
    IF v.type = "object" THEN [x \in DOMAIN v.m \ {k} |-> v.m[x]] ELSE NoMembers

\* the save that led from the file f to the file g changed nothing but
\* mcpServers["add-to-zotero"]
OnlyOwnEntryChanged(f, g) ==
    CASE f.kind = "garbage" -> g = f
      [] f.kind = "absent" -> TRUE
      [] OTHER ->
            LET a == JsonParse(f.doc)
                b == JsonParse(g.doc)
            IN  /\ g.kind = "json"
                /\ b.type = a.type
                /\ a.type # "object" => b = a
                /\ OtherMembers(b, "mcpServers") = OtherMembers(a, "mcpServers")
                /\ OtherMembers(GetProperty(b, "mcpServers"), "add-to-zotero")
                        = OtherMembers(GetProperty(a, "mcpServers"), "add-to-zotero")

\* C27: a save changes nothing in an existing Claude Desktop config but the
\* entry mcpServers["add-to-zotero"]: every other top-level key and every
\* other entry of mcpServers is kept with its value, save after save, and
\* a file that does not parse is left as it was.
C27_OnlyOwnEntryChanges ==
    [][OnlyOwnEntryChanged(configFile, configFile')]_vars

\* after two saves a file that held a theme and another server holds them
\* still, with the entry of the second save
C27_Witness ==
    /\ saves = 2
    /\ configFile.kind = "json"
    /\ JsonParse(configFile.doc) =
          JsonObject([theme |-> JsonString("dark"),
                      mcpServers |-> JsonObject(
                          Assign([filesystem |-> OtherServer], "add-to-zotero",
                                 ServerConfig("key2", "1")))])

-----------------------------------------------------------------------------
(* What the specification says of the connection test *)

\* the events that call resolve: all but the chunks of the body
SettlingEvents ==
    SelectSeq(events, LAMBDA e : e.type # "data")

\* the object the event e resolves the promise with
OutcomeOf(e) ==
    CASE e.type = "end" -> ResponseOutcome(e.statusCode)
      [] e.type = "timeout" -> [success |-> FALSE, error |-> "Connection timed out."]
      [] OTHER -> [success |-> FALSE, error |-> "Connection failed"]

\* C28: the promise of testZoteroConnection is never rejected, and once an
\* event has been delivered it is resolved with the outcome of the first
\* one: success true only for a response of status 200, and "Connection
\* timed out." when the timeout fired first, whatever error event the
\* destroyed request emits afterwards.
C28_ResolvesWithFirstOutcome ==
    /\ settled.state # "rejected"
    /\ SettlingEvents # <<>> =>
          settled = [state |-> "resolved", value |-> OutcomeOf(SettlingEvents[1])]
    /\ (settled.state = "resolved" /\ settled.value.success) =>
          SettlingEvents[1] = [type |-> "end", statusCode |-> 200]

-----------------------------------------------------------------------------
(* What the specification says of resolving a type twice *)

\* C29: resolveType is idempotent: for every input, resolving the value it
\* returned returns that value again, so that no canonical type of the
\* table is remapped to another type.
C29_Idempotent ==
    zoteroTypeAgain # NoType => zoteroTypeAgain = zoteroType

-----------------------------------------------------------------------------
(* What the specification says of the setup form *)

\* C30: while a test-connection request is in flight the Test button is
\* disabled, whatever input events arrive meanwhile, and so no more than
\* one test-connection request is outstanding at any time.
C30_OneTestInFlight ==
    /\ testsInFlight > 0 => btnTestDisabled
    /\ testsInFlight <= 1

====
